---- MODULE Spec2Model ----
(***************************************************************************)
(* A model of the hive package: the type-directed codec for Hive's         *)
(* LazySimpleSerDe text format (Marshal / Unmarshal), the per-type codec   *)
(* caches, the pooled encode state and the line-oriented stream facade.    *)
(*                                                                         *)
(* Bytes are integers 0..255; a byte string is a sequence of bytes.        *)
(* Go types are names in a type table (TT); Go values are pairs            *)
(* <<tag, payload>> so that any two values can be compared.                *)
(***************************************************************************)
EXTENDS Integers, Sequences, FiniteSets, TLC

VARIABLES
    input,      \* the <<type, value>> handed to Marshal in this behaviour
    pool,       \* encodeStatePool: <<>>, or <<depth>> of the idle encodeState
    call,       \* the record of the last top-level call and its outcome
    din,        \* the [data, target] handed to Unmarshal in this behaviour
    encCache,   \* encoderCache: type -> <<"none"|"indirect"|"real", owner>>
    decCache,   \* decoderCache: type -> <<"none"|"indirect"|"real", owner>>
    fldCache,   \* fieldsCache: the set of types with stored fields
    cpxCache,   \* complexityMap: the set of types with a stored complexity
    stack,      \* per thread: the call stack of the codec compiler
    built,      \* per cache and type: how many times the constructor ran
    got,        \* what the typeEncoder / typeDecoder calls have returned
    ctxDone,    \* ctx.Done() is closed
    srcCh,      \* EncodeAll's source channel: [buf, closed]
    writer,     \* the underlying io.Writer: the sequence of Write arguments
    encAll,     \* EncodeAll: [pc, ret]
    reader,     \* the bytes not yet consumed from the underlying io.Reader
    sink,       \* the values DecodeAll has sent to its channel
    decAll,     \* DecodeAll: [pc, ret, val]
    encLog,     \* the Encode calls made so far: <<input, marshalled | failed>>
    scanner,    \* the Decoder's bufio.Scanner: [rest, err]
    decLog,     \* the Decode calls made so far: [typ, scanned, data, err, res]
    slicing,    \* a slicer and the last call made on it
    mem         \* the byte arrays behind the first Marshal's encodeState and result

codecVars  == <<input, pool, call, din>>
cacheVars  == <<encCache, decCache, fldCache, cpxCache, stack, built, got>>
scanVars   == <<scanner, decLog>>
streamVars == <<ctxDone, srcCh, writer, encAll, reader, sink, decAll, encLog,
                scanVars>>
sliceVars  == <<slicing>>
memVars    == <<mem>>
vars == <<codecVars, cacheVars, streamVars, sliceVars, memVars>>

-----------------------------------------------------------------------------
(* Bounds of the model.                                                    *)

\* longest Sequence / Map value enumerated as an input
MaxLen == 2
\* the depth an encodeState can carry into the pool before the model stops
\* adding failing calls
MaxLeak == 2

\* the goroutines that compile codecs concurrently
NumThreads == 2

\* the frames a goroutine's stack holds before the runtime ends the process
\* with a stack overflow
MaxStack == 14

\* the Encode calls made on the Encoder
MaxRecords == 3

-----------------------------------------------------------------------------
(* Byte strings.                                                           *)

\* Nil is how Hive represents nil value: the two bytes '\\', 'N'
Nil == <<92, 78>>

TrueBytes  == <<116, 114, 117, 101>>         \* "true"
FalseBytes == <<102, 97, 108, 115, 101>>     \* "false"
NaNBytes   == <<78, 97, 78>>                 \* "NaN"

RECURSIVE digitsOf(_)
digitsOf(n) ==
    IF n < 10 THEN <<48 + n>> ELSE Append(digitsOf(n \div 10), 48 + (n % 10))

\* strconv.AppendInt(dst[:0], n, 10)
AppendInt(n) == IF n < 0 THEN <<45>> \o digitsOf(0 - n) ELSE digitsOf(n)

RECURSIVE parseDigits(_, _)
\* the value of a non-empty string of decimal digits, -1 when it is not one
parseDigits(s, acc) ==
    IF s = <<>> THEN acc
    ELSE IF Head(s) < 48 \/ Head(s) > 57 THEN -1
    ELSE parseDigits(Tail(s), acc * 10 + (Head(s) - 48))

\* strconv.ParseUint(s, 10, 64): [ok, n]
ParseUint(s) ==
    IF s = <<>> THEN [ok |-> FALSE, n |-> 0]
    ELSE LET n == parseDigits(s, 0)
         IN  IF n < 0 THEN [ok |-> FALSE, n |-> 0] ELSE [ok |-> TRUE, n |-> n]

\* strconv.ParseInt(s, 10, 64): an optional sign, then ParseUint
ParseInt(s) ==
    IF s = <<>> THEN [ok |-> FALSE, n |-> 0]
    ELSE IF Head(s) = 45
         THEN LET r == ParseUint(Tail(s)) IN [ok |-> r.ok, n |-> 0 - r.n]
    ELSE IF Head(s) = 43 THEN ParseUint(Tail(s))
    ELSE ParseUint(s)

\* the number of bytes of s equal to b
RECURSIVE CountByte(_, _)
CountByte(s, b) ==
    IF s = <<>> THEN 0
    ELSE (IF Head(s) = b THEN 1 ELSE 0) + CountByte(Tail(s), b)

\* Go's s[lo:hi] on a 0-indexed byte string
GoSlice(s, lo, hi) == SubSeq(s, lo + 1, hi)

-----------------------------------------------------------------------------
(* Go types.  A type is a name; TT gives its reflect.Type view: the kind,  *)
(* the element / key types, the array length, the struct fields, and the   *)
(* method sets that matter (MarshalHive on T or on *T, UnmarshalHive on    *)
(* *T).                                                                    *)

Desc(k, e, ky, n, fs, m, u) ==
    [kind |-> k, elem |-> e, key |-> ky, len |-> n, fields |-> fs,
     mar |-> m, unmar |-> u]

Prim(k)       == Desc(k, "", "", 0, <<>>, "none", FALSE)
SliceOf(e)    == Desc("slice", e, "", 0, <<>>, "none", FALSE)
ArrayOf(n, e) == Desc("array", e, "", n, <<>>, "none", FALSE)
MapOf(ky, e)  == Desc("map", e, ky, 0, <<>>, "none", FALSE)
PtrOf(e)      == Desc("ptr", e, "", 0, <<>>, "none", FALSE)
StructOf(fs)  == Desc("struct", "", "", 0, fs, "none", FALSE)

\* reflect.StructField: exported <=> PkgPath = "", anon <=> Anonymous
Fld(n, t)   == [name |-> n, typ |-> t, exported |-> TRUE, anon |-> FALSE]
Unexp(n, t) == [name |-> n, typ |-> t, exported |-> FALSE, anon |-> FALSE]
Embed(t)    == [name |-> t, typ |-> t, exported |-> TRUE, anon |-> TRUE]

IntInt == <<Fld("I", "int"), Fld("J", "int")>>

Describe(t) ==
    CASE t = "bool"         -> Prim("bool")
      [] t = "int"          -> Prim("int")
      [] t = "uint8"        -> Prim("uint8")
      [] t = "B"            -> Prim("uint8")            \* type B uint8
      [] t = "float64"      -> Prim("float64")
      [] t = "string"       -> Prim("string")
      [] t = "chan int"     -> Prim("chan")
      [] t = "interface {}" -> Prim("iface")
      [] t = "[]int"        -> SliceOf("int")
      [] t = "[]string"     -> SliceOf("string")
      [] t = "[]float64"    -> SliceOf("float64")
      [] t = "[]uint8"      -> SliceOf("uint8")
      [] t = "[][]int"      -> SliceOf("[]int")
      [] t = "[]Pair"       -> SliceOf("Pair")
      [] t = "[]chan int"   -> SliceOf("chan int")
      [] t = "[2]uint8"     -> ArrayOf(2, "uint8")
      [] t = "[2]B"         -> ArrayOf(2, "B")
      [] t = "[2]int"       -> ArrayOf(2, "int")
      [] t = "*int"         -> PtrOf("int")
      [] t = "*Pair"        -> PtrOf("Pair")
      [] t = "*Custom"      -> PtrOf("Custom")
      [] t = "*CustomP"     -> PtrOf("CustomP")
      [] t = "*CustomErr"   -> PtrOf("CustomErr")
      [] t = "[2]Custom"    -> ArrayOf(2, "Custom")
      [] t = "map[int]int"  -> MapOf("int", "int")
      [] t = "map[int]*int" -> MapOf("int", "*int")
      [] t = "map[int]Pair" -> MapOf("int", "Pair")
      [] t = "map[int]float64" -> MapOf("int", "float64")
      [] t = "Pair"         -> StructOf(<<Fld("A", "int"), Fld("B", "int")>>)
      [] t = "Empty"        -> StructOf(<<>>)
      [] t = "WithEmpty"    -> StructOf(<<Fld("I", "int"), Fld("J", "Empty")>>)
      [] t = "WithOpt"      -> StructOf(<<Fld("I", "int"), Fld("P", "*Pair")>>)
      [] t = "Hidden"       -> StructOf(<<Unexp("u", "int"), Fld("I", "int"),
                                          Fld("S", "string")>>)
      [] t = "Foo"          -> StructOf(<<Fld("I", "int"), Fld("SS", "[]int"),
                                          Fld("M", "map[int]int")>>)
      [] t = "WithSeq"      -> StructOf(<<Fld("I", "int"), Fld("SS", "[]string")>>)
      [] t = "WithMap"      -> StructOf(<<Fld("M", "map[int]int"), Fld("I", "int")>>)
      [] t = "Nested"       -> StructOf(<<Fld("I", "int"), Fld("St", "Pair"),
                                          Fld("F", "*int")>>)
      \* testStructMarshaler1: MarshalHive has a value receiver
      [] t = "Custom"       -> [StructOf(IntInt) EXCEPT !.mar = "value"]
      \* testStructMarshaler2: MarshalHive has a pointer receiver
      [] t = "CustomP"      -> [StructOf(IntInt) EXCEPT !.mar = "ptr"]
      \* a Marshaler whose MarshalHive returns an error
      [] t = "CustomErr"    -> [StructOf(IntInt) EXCEPT !.mar = "value"]
      \* testStructUnmarshaler: UnmarshalHive has a pointer receiver
      [] t = "Unm"          -> [StructOf(IntInt) EXCEPT !.unmar = TRUE]
      [] t = "WithCustom"   -> StructOf(<<Fld("I", "int"), Fld("C", "Custom")>>)
      [] t = "WithChan"     -> StructOf(<<Fld("I", "int"), Fld("C", "chan int")>>)
      [] t = "WithIface"    -> StructOf(<<Fld("I", "int"), Fld("X", "interface {}")>>)
      [] t = "E"            -> StructOf(<<Fld("X", "int")>>)
      [] t = "Bd"           -> StructOf(<<Embed("E")>>)
      [] t = "Diamond"      -> StructOf(<<Embed("E"), Embed("Bd")>>)
      \* self-referential records
      [] t = "Node"         -> StructOf(<<Fld("V", "int"), Fld("Next", "*Node")>>)
      [] t = "*Node"        -> PtrOf("Node")
      [] t = "Tree"         -> StructOf(<<Fld("V", "int"), Fld("Kids", "[]Tree")>>)
      [] t = "[]Tree"       -> SliceOf("Tree")
      [] t = "Dir"          -> StructOf(<<Fld("M", "map[int]Dir")>>)
      [] t = "map[int]Dir"  -> MapOf("int", "Dir")

\* every type of the model
TypeNames ==
    {"bool", "int", "uint8", "B", "float64", "string", "chan int",
     "interface {}", "[]int", "[]string", "[]float64", "[]uint8", "[][]int",
     "[]Pair", "[]chan int", "[2]uint8", "[2]B", "[2]int", "*int", "*Pair",
     "*Custom", "*CustomP", "*CustomErr", "[2]Custom", "map[int]int",
     "map[int]*int", "map[int]Pair",
     "map[int]float64", "Pair", "Empty", "WithEmpty", "WithOpt", "Hidden",
     "Foo", "WithSeq", "WithMap", "Nested", "Custom", "CustomP", "CustomErr",
     "Unm", "WithCustom", "WithChan", "WithIface", "E", "Bd", "Diamond",
     "Node", "*Node", "Tree", "[]Tree", "Dir", "map[int]Dir"}

TypeTable == [t \in TypeNames |-> Describe(t)]

TT(t) == TypeTable[t]

Kind(t) == TT(t).kind

\* t.Implements(marshalerType): the method set of T holds the value-receiver
\* methods; the method set of *T holds those of both receivers
Implements(t) ==
    IF Kind(t) = "ptr" THEN TT(TT(t).elem).mar # "none" ELSE TT(t).mar = "value"

\* reflect.PtrTo(t).Implements(marshalerType)
PtrImplements(t) == TT(t).mar # "none"

\* reflect.PtrTo(t).Implements(unmarshalerType)
PtrUnmarshals(t) == TT(t).unmar

-----------------------------------------------------------------------------
(* Go values: <<tag, payload>>.                                            *)

NilV          == <<"nil", <<>>>>            \* nil slice, map, pointer, interface
BoolV(b)      == <<"bool", <<b>>>>          \* b is 0 or 1
IntV(n)       == <<"int", <<n>>>>
UintV(n)      == <<"uint", <<n>>>>
FloatV(nan,n) == <<"float", <<nan, n>>>>    \* nan = 1: NaN; else the number n
StrV(s)       == <<"str", s>>
BytesV(s)     == <<"bytes", s>>             \* non-nil []byte
ListV(vs)     == <<"list", vs>>             \* non-nil slice, or array
BArrV(s)      == <<"barr", s>>              \* array of bytes
MapV(kvs)     == <<"map", kvs>>             \* non-nil map: sequence of <<k, v>>
RecV(fs)      == <<"rec", fs>>              \* struct: one value per declared field
PtrV(v)       == <<"ptr", <<v>>>>
IfaceV(t, v)  == <<"iface", << <<t, <<>>>>, v >>>>   \* dynamic type and value
ChanV         == <<"chan", <<>>>>

Tag(v)     == v[1]
Payload(v) == v[2]
IsNilV(v)  == Tag(v) = "nil"
DynType(v) == Payload(v)[1][1]
DynVal(v)  == Payload(v)[2]

RECURSIVE Zero(_)
RECURSIVE ZeroFields(_)
ZeroFields(fs) ==
    IF fs = <<>> THEN <<>> ELSE <<Zero(Head(fs).typ)>> \o ZeroFields(Tail(fs))

\* reflect.Zero(t)
Zero(t) ==
    LET d == TT(t) IN
    CASE d.kind = "bool"    -> BoolV(0)
      [] d.kind = "int"     -> IntV(0)
      [] d.kind = "uint8"   -> UintV(0)
      [] d.kind = "float64" -> FloatV(0, 0)
      [] d.kind = "string"  -> StrV(<<>>)
      [] d.kind = "chan"    -> NilV
      [] d.kind = "iface"   -> NilV
      [] d.kind = "slice"   -> NilV
      [] d.kind = "map"     -> NilV
      [] d.kind = "ptr"     -> NilV
      [] d.kind = "array"   -> IF Kind(d.elem) = "uint8"
                               THEN BArrV([i \in 1..d.len |-> 0])
                               ELSE ListV([i \in 1..d.len |-> Zero(d.elem)])
      [] d.kind = "struct"  -> RecV(ZeroFields(d.fields))

-----------------------------------------------------------------------------
(* The delimiter slicer.                                                   *)

\* newSlicer: idxs holds -1, the (0-based) index of every delimiter, len(data)
newSlicer(data, delimiter) ==
    [data |-> data,
     idxs |-> <<-1>>
              \o SelectSeq([i \in 1..Len(data) |-> i - 1],
                           LAMBDA k : data[k + 1] = delimiter)
              \o <<Len(data)>>]

\* a count that takes the empty data for one empty slice
countIdxs(s) == Len(s.idxs) - 1

numSlices(s) == IF Len(s.data) = 0 THEN 0 ELSE Len(s.idxs) - 1

\* slice(offset, length) indexes idxs and re-slices data; Go panics when an
\* index is out of range or when the low bound exceeds the high bound
slicePanics(s, offset, length) ==
    \/ offset < 0 \/ offset >= Len(s.idxs)
    \/ offset + length < 0 \/ offset + length >= Len(s.idxs)
    \/ s.idxs[offset + 1] + 1 > s.idxs[offset + length + 1]

slice(s, offset, length) ==
    GoSlice(s.data, s.idxs[offset + 1] + 1, s.idxs[offset + length + 1])

-----------------------------------------------------------------------------
(* Shape analysis: complexity and the flattened field list.                *)

RECURSIVE indirect(_)
indirect(t) == IF Kind(t) = "ptr" THEN indirect(TT(t).elem) ELSE t

RECURSIVE complexity(_)
RECURSIVE cachedComplexity(_)
RECURSIVE sumComplexity(_)

\* the loop of complexity over t's fields: c += cachedComplexity(...) + 1
sumComplexity(fs) ==
    IF fs = <<>> THEN 0
    ELSE (IF Head(fs).exported
          THEN cachedComplexity(indirect(Head(fs).typ)) + 1
          ELSE 0) + sumComplexity(Tail(fs))

complexity(t0) ==
    LET t == indirect(t0)
    IN  IF Kind(t) # "struct" THEN 0 ELSE sumComplexity(TT(t).fields) - 1

\* the value cachedComplexity returns: the cache stores what complexity computes
cachedComplexity(t) == complexity(t)

\* the types whose complexity is a value: complexity does not return for the
\* records that reach themselves through pointers alone
Sized == TypeNames \ {"Node", "*Node"}

\* complexityMap once filled
complexityMap == [t \in Sized |-> complexity(t)]

\* byIndex.Less on two index paths
RECURSIVE lessFrom(_, _, _)
lessFrom(x, y, k) ==
    IF k > Len(x) THEN Len(x) < Len(y)
    ELSE IF k > Len(y) THEN FALSE
    ELSE IF x[k] # y[k] THEN x[k] < y[k]
    ELSE lessFrom(x, y, k + 1)

Less(x, y) == lessFrom(x, y, 1)

RECURSIVE insertByIndex(_, _)
insertByIndex(f, s) ==
    IF s = <<>> THEN <<f>>
    ELSE IF Less(f.index, Head(s).index) THEN <<f>> \o s
    ELSE <<Head(s)>> \o insertByIndex(f, Tail(s))

\* sort.Sort(byIndex(fields)): index paths are pairwise distinct
RECURSIVE sortByIndex(_)
sortByIndex(s) ==
    IF s = <<>> THEN <<>> ELSE insertByIndex(Head(s), sortByIndex(Tail(s)))

\* one round of the scan loop on the i-th StructField sf of f.typ: an
\* unexported field is ignored; an exported one goes to next (anonymous
\* struct) or to fields, and to seen in the order of the scan
scanField(f, i, sf, acc) ==
    IF ~sf.exported THEN acc
    ELSE IF sf.anon /\ Kind(sf.typ) = "struct"
    THEN [acc EXCEPT !.next = Append(@, [name |-> sf.name, typ |-> sf.typ,
                                         index |-> Append(f.index, i)]),
                     !.seen = Append(@, sf.typ)]
    ELSE [acc EXCEPT !.fields = Append(@, [name |-> sf.name, typ |-> sf.typ,
                                           index |-> Append(f.index, i)]),
                     !.seen = Append(@, sf.typ)]

\* the scan of f.typ's fields from position i
RECURSIVE scanFields(_, _, _)
scanFields(f, i, acc) ==
    IF i >= Len(TT(f.typ).fields) THEN acc
    ELSE scanFields(f, i + 1, scanField(f, i, TT(f.typ).fields[i + 1], acc))

\* one level of the walk: every not yet visited type of current is scanned
RECURSIVE scanLevel(_, _)
scanLevel(current, acc) ==
    IF current = <<>> THEN acc
    ELSE IF Head(current).typ \in acc.visited THEN scanLevel(Tail(current), acc)
    ELSE scanLevel(Tail(current),
                   scanFields(Head(current), 0,
                              [acc EXCEPT !.visited = @ \cup {Head(current).typ}]))

\* the loop for len(next) > 0: current, next = next, current[:0]
RECURSIVE scanAll(_)
scanAll(acc) ==
    IF acc.next = <<>> THEN acc
    ELSE scanAll(scanLevel(acc.next, [acc EXCEPT !.next = <<>>]))

\* the walk of newTypeFields over t: the fields found and, in seen, the type
\* of every exported field in the order the walk meets it
scan(t) ==
    scanAll([next |-> <<[name |-> "", typ |-> t, index |-> <<>>]>>,
             fields |-> <<>>, seen |-> <<>>, visited |-> {}])

\* the field literal: complexity: cachedComplexity(ft)
withComplexity(fs) ==
    [i \in 1..Len(fs) |->
        [name |-> fs[i].name, index |-> fs[i].index, typ |-> fs[i].typ,
         complexity |-> cachedComplexity(fs[i].typ)]]

newTypeFields(t) == sortByIndex(withComplexity(scan(t).fields))

\* fieldsCache once filled
fieldsCache == [t \in {x \in Sized : Kind(x) = "struct"} |-> newTypeFields(t)]

\* the value cachedTypeFields returns
cachedTypeFields(t) == fieldsCache[t]

\* field.findNested: follow the index path from v
RECURSIVE findNested(_, _)
findNested(idx, fv) ==
    IF idx = <<>> THEN [v |-> fv, found |-> TRUE]
    ELSE IF IsNilV(fv) THEN [v |-> fv, found |-> FALSE]
    ELSE LET s == IF Tag(fv) = "ptr" THEN Payload(fv)[1] ELSE fv
         IN  findNested(Tail(idx), Payload(s)[Head(idx) + 1])

\* the struct v with the field at the index path replaced by nv
RECURSIVE setNested(_, _, _)
setNested(idx, v, nv) ==
    IF idx = <<>> THEN nv
    ELSE RecV([Payload(v) EXCEPT ![Head(idx) + 1] = setNested(Tail(idx), @, nv)])

-----------------------------------------------------------------------------
(* Encoding.  An encodeState is [buf, depth, err, rev]: the bytes.Buffer,  *)
(* the depth byte, the error carried by a panic that is unwinding ("" when *)
(* none; "panic" for a fault that is not a hiveError), and the order in    *)
(* which this call's MapKeys come (rev: reversed).                         *)

Write(e, b)     == [e EXCEPT !.buf = @ \o b]
writeNil(e)     == Write(e, Nil)
encError(e, er) == [e EXCEPT !.err = er]

\* a user MarshalHive(depth): the bytes 'f', '0' + depth, or an error
MarshalHive(t, depth) ==
    [ok |-> t # "CustomErr", bytes |-> <<102, 48 + depth>>]

BaseType(t) == IF Kind(t) = "ptr" THEN TT(t).elem ELSE t

\* an encoder that hands MarshalHive the depth 0 whatever e.depth is
marshalerAtTop(t, v, e) ==
    IF Kind(t) = "ptr" /\ IsNilV(v) THEN writeNil(e)
    ELSE LET r == MarshalHive(BaseType(t), 0)
         IN  IF r.ok THEN Write(e, r.bytes) ELSE encError(e, "MarshalerError")

marshalerEncoder(t, v, e) ==
    IF Kind(t) = "ptr" /\ IsNilV(v) THEN writeNil(e)
    ELSE LET r == MarshalHive(BaseType(t), e.depth)
         IN  IF r.ok THEN Write(e, r.bytes) ELSE encError(e, "MarshalerError")

marshalerPtrEncoder(t, v, e) ==
    LET r == MarshalHive(t, e.depth)
    IN  IF r.ok THEN Write(e, r.bytes) ELSE encError(e, "MarshalerError")

boolEncoder(v, e) ==
    IF Payload(v)[1] = 1 THEN Write(e, TrueBytes) ELSE Write(e, FalseBytes)

intEncoder(v, e)  == Write(e, AppendInt(Payload(v)[1]))
uintEncoder(v, e) == Write(e, AppendInt(Payload(v)[1]))

\* floatEncoder.encode: NaN and the infinities are refused; the finite values
\* of the model are integral and below 1e21, which format 'f' writes as the
\* decimal integer
floatEncoder(v, e) ==
    IF Payload(v)[1] = 1 THEN encError(e, "UnsupportedValueError")
    ELSE Write(e, AppendInt(Payload(v)[2]))

stringEncoder(v, e) == IF Payload(v) # <<>> THEN Write(e, Payload(v)) ELSE e

byteSliceEncoder(v, e) == IF IsNilV(v) THEN writeNil(e) ELSE Write(e, Payload(v))

\* v.Index(i).Interface().(byte): the assertion panics for an element type
\* that is not uint8 itself
byteArrayEncoder(t, v, e) ==
    IF TT(t).elem # "uint8" /\ Len(Payload(v)) > 0 THEN encError(e, "panic")
    ELSE Write(e, Payload(v))

unsupportedTypeEncoder(e) == encError(e, "UnsupportedTypeError")

Reverse(s) == [i \in 1..Len(s) |-> s[Len(s) + 1 - i]]

RECURSIVE encode(_, _, _)
RECURSIVE newTypeEncoder(_, _, _, _)
RECURSIVE encodeElements(_, _, _, _, _)
RECURSIVE encodeValue(_, _, _, _)
RECURSIVE encodePairs(_, _, _, _, _, _)
RECURSIVE encodeField(_, _, _, _, _)
RECURSIVE encodeFields(_, _, _, _, _)

\* if i > 0 { e.WriteByte(delimiter) }, for the 1-based i of the model
separated(e, i, delimiter) == IF i > 1 THEN Write(e, <<delimiter>>) ELSE e

\* e.depth++ / e.depth-- / e.depth += 2 / e.depth -= 2 on the depth byte; the
\* statement is not reached while a panic unwinds
shift(e, n) == IF e.err # "" THEN e ELSE [e EXCEPT !.depth = (@ + n) % 256]

\* the loop of sequenceEncoder.encode from element i
encodeElements(et, vs, i, delimiter, e) ==
    IF e.err # "" \/ i > Len(vs) THEN e
    ELSE encodeElements(et, vs, i + 1, delimiter,
                        encode(et, vs[i], separated(e, i, delimiter)))

sequenceEncoder(t, v, e, nullable) ==
    IF nullable /\ IsNilV(v) THEN writeNil(e)
    ELSE shift(encodeElements(TT(t).elem, Payload(v), 1, (e.depth + 2) % 256,
                              shift(e, 1)),
               255)

\* e.WriteByte(mapDelim); me.elemEnc(e, v.MapIndex(k)) once the key is written
encodeValue(t, val, mapDelimiter, e) ==
    IF e.err # "" THEN e
    ELSE encode(TT(t).elem, val, Write(e, <<mapDelimiter>>))

\* the loop of mapEncoder.encode from pair i
encodePairs(t, kvs, i, listDelimiter, mapDelimiter, e) ==
    IF e.err # "" \/ i > Len(kvs) THEN e
    ELSE encodePairs(t, kvs, i + 1, listDelimiter, mapDelimiter,
             encodeValue(t, kvs[i][2], mapDelimiter,
                         encode(TT(t).key, kvs[i][1],
                                separated(e, i, listDelimiter))))

\* v.MapKeys() in the order this call sees
MapKeys(v, rev) == IF rev THEN Reverse(Payload(v)) ELSE Payload(v)

mapEncoder(t, v, e) ==
    IF IsNilV(v) THEN writeNil(e)
    ELSE shift(encodePairs(t, MapKeys(v, e.rev), 1, (e.depth + 2) % 256,
                           (e.depth + 3) % 256, shift(e, 2)),
               254)

interfaceEncoder(v, e) ==
    IF IsNilV(v) THEN writeNil(e) ELSE encode(DynType(v), DynVal(v), e)

ptrEncoder(t, v, e) ==
    IF IsNilV(v) THEN writeNil(e) ELSE encode(TT(t).elem, Payload(v)[1], e)

\* one round of the loop of structEncoder.encode: fv is f.findNested(v)
encodeField(f, fv, i, delimiter, e) ==
    IF ~fv.found THEN encError(e, "error")
    ELSE encode(f.typ, fv.v, separated(e, i, delimiter))

\* the loop of structEncoder.encode from field i
encodeFields(fields, v, i, delimiter, e) ==
    IF e.err # "" \/ i > Len(fields) THEN e
    ELSE encodeFields(fields, v, i + 1, delimiter,
             encodeField(fields[i], findNested(fields[i].index, v), i,
                         delimiter, e))

structEncoder(t, v, e) ==
    encodeFields(cachedTypeFields(t), v, 1, (e.depth + 1) % 256, e)

\* the switch of newTypeEncoder on t.Kind(), applied
newTypeEncoder(k, t, v, e) ==
    CASE k = "bool"    -> boolEncoder(v, e)
      [] k = "int"     -> intEncoder(v, e)
      [] k = "uint8"   -> uintEncoder(v, e)
      [] k = "float64" -> floatEncoder(v, e)
      [] k = "string"  -> stringEncoder(v, e)
      [] k = "slice"   -> IF Kind(TT(t).elem) = "uint8"
                          THEN byteSliceEncoder(v, e)
                          ELSE sequenceEncoder(t, v, e, TRUE)
      [] k = "array"   -> IF Kind(TT(t).elem) = "uint8"
                          THEN byteArrayEncoder(t, v, e)
                          ELSE sequenceEncoder(t, v, e, FALSE)
      [] k = "map"     -> mapEncoder(t, v, e)
      [] k = "struct"  -> structEncoder(t, v, e)
      [] k = "iface"   -> interfaceEncoder(v, e)
      [] k = "ptr"     -> ptrEncoder(t, v, e)
      [] OTHER         -> unsupportedTypeEncoder(e)

\* typeEncoder(t)(e, v): the encoder newTypeEncoder builds for t, applied
encode(t, v, e) ==
    IF e.err # "" THEN e
    ELSE IF Implements(t) THEN marshalerEncoder(t, v, e)
    ELSE IF PtrImplements(t) THEN marshalerPtrEncoder(t, v, e)
    ELSE newTypeEncoder(Kind(t), t, v, e)

\* the type name of an untyped nil interface{} argument
Untyped == "nil"

\* encodeState.marshal on an encodeState whose buffer was reset and whose depth
\* is depth0: reflect.ValueOf(nil) is invalid and writes Nil
marshal(depth0, in, rev) ==
    IF in[1] = Untyped
    THEN writeNil([buf |-> <<>>, depth |-> depth0, err |-> "", rev |-> rev])
    ELSE encode(in[1], in[2],
                [buf |-> <<>>, depth |-> depth0, err |-> "", rev |-> rev])

-----------------------------------------------------------------------------
(* Decoding.  A decoder gets the data, the value v the target holds, the   *)
(* decodeState's depth and whether the target can be set (reflect's        *)
(* CanSet: false for the copy Value.Elem() takes out of an interface).  It *)
(* yields [v, depth, err]: the target's value and the depth when it        *)
(* returns or when the panic err leaves it.                                *)

Ret(v, depth)       == [v |-> v, depth |-> depth, err |-> ""]
Raise(v, depth, er) == [v |-> v, depth |-> depth, err |-> er]

\* v.Set / v.SetInt / ... : reflect panics on a Value that cannot be set
SetTo(v, nv, depth, settable) ==
    IF settable THEN Ret(nv, depth) ELSE Raise(v, depth, "panic")

isNil(data) == Len(data) = 0 \/ (Len(data) = 2 /\ data = Nil)

\* a user UnmarshalHive(data, depth) on *T: refuses the data "!" and else
\* stores len(data) and depth in the two fields
UnmarshalHive(t, data, depth) ==
    [ok |-> data # <<33>>, v |-> RecV(<<IntV(Len(data)), IntV(depth)>>)]

unmarshalerDecoder(t, data, v, depth, settable) ==
    IF ~settable THEN Raise(v, depth, "panic")      \* v.Addr()
    ELSE LET r == UnmarshalHive(t, data, depth)
         IN  IF r.ok THEN Ret(r.v, depth) ELSE Raise(v, depth, "UnmarshalerError")

unsupportedTypeDecoder(v, depth) == Raise(v, depth, "UnsupportedTypeError")

boolDecoder(data, v, depth, settable) ==
    IF data = TrueBytes THEN SetTo(v, BoolV(1), depth, settable)
    ELSE IF data = FalseBytes THEN SetTo(v, BoolV(0), depth, settable)
    ELSE Raise(v, depth, "UnmarshalTypeError")

intDecoder(data, v, depth, settable) ==
    LET r == ParseInt(data)
    IN  IF ~r.ok THEN Raise(v, depth, "UnmarshalTypeError")
        ELSE SetTo(v, IntV(r.n), depth, settable)

\* v.OverflowUint(n) for the 8-bit kind
uintDecoder(data, v, depth, settable) ==
    LET r == ParseUint(data)
    IN  IF ~r.ok \/ r.n > 255 THEN Raise(v, depth, "UnmarshalTypeError")
        ELSE SetTo(v, UintV(r.n), depth, settable)

\* strconv.ParseFloat on the syntaxes of the model: "NaN" and the decimal
\* integers
floatDecoder(data, v, depth, settable) ==
    IF data = NaNBytes THEN SetTo(v, FloatV(1, 0), depth, settable)
    ELSE LET r == ParseInt(data)
         IN  IF ~r.ok THEN Raise(v, depth, "UnmarshalTypeError")
             ELSE SetTo(v, FloatV(0, r.n), depth, settable)

stringDecoder(data, v, depth, settable) == SetTo(v, StrV(data), depth, settable)

\* a ByteBlob decoder that takes the null sentinel for null
nullByteSliceDecoder(data, v, depth, settable) ==
    SetTo(v, IF isNil(data) THEN NilV ELSE BytesV(data), depth, settable)

\* append([]byte(nil), data...) is nil for empty data
byteSliceDecoder(data, v, depth, settable) ==
    SetTo(v, IF data = <<>> THEN NilV ELSE BytesV(data), depth, settable)

\* reflect.Copy panics unless the element types match and the array can be set
byteArrayDecoder(t, data, v, depth, settable) ==
    IF Len(data) # TT(t).len THEN Raise(v, depth, "error")
    ELSE IF TT(t).elem # "uint8" \/ ~settable THEN Raise(v, depth, "panic")
    ELSE Ret(BArrV(data), depth)

\* v.SetMapIndex(key, val) on the pairs of a map
RECURSIVE setMapIndex(_, _, _)
setMapIndex(kvs, k, val) ==
    IF kvs = <<>> THEN << <<k, val>> >>
    ELSE IF Head(kvs)[1] = k THEN << <<k, val>> >> \o Tail(kvs)
    ELSE <<Head(kvs)>> \o setMapIndex(Tail(kvs), k, val)

RECURSIVE decode(_, _, _, _, _)
RECURSIVE newTypeDecoder(_, _, _, _, _, _)
RECURSIVE elementDecoded(_, _, _, _, _)
RECURSIVE decodeElements(_, _, _, _, _)
RECURSIVE valDecoded(_, _, _, _, _, _)
RECURSIVE keyDecoded(_, _, _, _, _, _, _)
RECURSIVE decodePair(_, _, _, _, _, _, _, _)
RECURSIVE decodePairs(_, _, _, _, _, _, _)
RECURSIVE fieldDecoded(_, _, _, _, _, _, _, _)
RECURSIVE decodeField(_, _, _, _, _, _, _, _)
RECURSIVE decodeFields(_, _, _, _, _, _, _)

\* the rest of a round of the element loop once the element decoder yielded r
elementDecoded(et, sl, i, vs, r) ==
    IF r.err # "" THEN Raise([vs EXCEPT ![i + 1] = r.v], r.depth, r.err)
    ELSE decodeElements(et, sl, i + 1, [vs EXCEPT ![i + 1] = r.v], r.depth)

\* the loop of sliceDecoder.decode / arrayDecoder.decode from element i
\* (0-based), on the elements vs
decodeElements(et, sl, i, vs, depth) ==
    IF i >= numSlices(sl) THEN Ret(vs, depth)
    ELSE IF slicePanics(sl, i, 1) THEN Raise(vs, depth, "panic")
    ELSE elementDecoded(et, sl, i, vs,
                        decode(et, slice(sl, i, 1), vs[i + 1], depth, TRUE))

\* d.depth-- / d.depth -= 2 after the loop, which a panic skips
Leave(r, n) ==
    IF r.err # "" THEN r ELSE [r EXCEPT !.depth = (@ + 256 - n) % 256]

\* reflect.MakeSlice(t, n, n) filled by the loop
makeSlice(t, sl, depth) ==
    decodeElements(TT(t).elem, sl, 0,
                   [i \in 1..numSlices(sl) |-> Zero(TT(t).elem)],
                   (depth + 1) % 256)

\* the list a loop result holds
listOf(r) == [r EXCEPT !.v = ListV(@)]

sliceDecoder(t, data, v, depth, settable) ==
    IF ~settable THEN Raise(v, depth, "panic")
    ELSE IF isNil(data) THEN Ret(ListV(<<>>), depth)
    ELSE Leave(listOf(makeSlice(t, newSlicer(data, (depth + 2) % 256), depth)),
               1)

\* the element count check and the loop of arrayDecoder.decode
fillArray(t, sl, depth) ==
    IF TT(t).len # numSlices(sl) THEN Raise(Payload(Zero(t)), depth, "error")
    ELSE Leave(decodeElements(TT(t).elem, sl, 0, Payload(Zero(t)),
                              (depth + 1) % 256),
               1)

arrayDecoder(t, data, v, depth, settable) ==
    IF ~settable THEN Raise(v, depth, "panic")
    ELSE IF isNil(data) THEN Ret(Zero(t), depth)
    ELSE listOf(fillArray(t, newSlicer(data, (depth + 2) % 256), depth))

\* v.SetMapIndex(keyValue, valValue) and the next round
valDecoded(t, sl, i, kvs, rk, rv) ==
    IF rv.err # "" THEN Raise(kvs, rv.depth, rv.err)
    ELSE decodePairs(t, sl, i + 1, setMapIndex(kvs, rk.v, rv.v), rk.v, rv.v,
                     rv.depth)

\* md.elemDec(d, it.slice(1, 1), valValue) once the key decoder yielded rk
keyDecoded(t, sl, i, kvs, valValue, it, rk) ==
    IF rk.err # "" THEN Raise(kvs, rk.depth, rk.err)
    ELSE valDecoded(t, sl, i, kvs, rk,
                    decode(TT(t).elem, slice(it, 1, 1), valValue, rk.depth,
                           TRUE))

\* one round of the loop of mapDecoder.decode on the slicer it of the pair
decodePair(t, sl, i, kvs, keyValue, valValue, depth, it) ==
    IF numSlices(it) # 2 THEN Raise(kvs, depth, "UnmarshalTypeError")
    ELSE keyDecoded(t, sl, i, kvs, valValue, it,
                    decode(TT(t).key, slice(it, 0, 1), keyValue, depth, TRUE))

\* the loop of mapDecoder.decode from pair i (0-based): keyValue and valValue
\* are allocated once and reused for every pair
decodePairs(t, sl, i, kvs, keyValue, valValue, depth) ==
    IF i >= numSlices(sl) THEN Ret(kvs, depth)
    ELSE IF slicePanics(sl, i, 1) THEN Raise(kvs, depth, "panic")
    ELSE decodePair(t, sl, i, kvs, keyValue, valValue, depth,
                    newSlicer(slice(sl, i, 1), (depth + 1) % 256))

\* the map a loop result holds
mapOf(r) == [r EXCEPT !.v = MapV(@)]

\* mapDelim is depth + 3 before depth grows by 2, i.e. the new depth + 1
mapDecoder(t, data, v, depth, settable) ==
    IF ~settable THEN Raise(v, depth, "panic")
    ELSE IF isNil(data) THEN Ret(MapV(<<>>), depth)
    ELSE Leave(mapOf(decodePairs(t, newSlicer(data, (depth + 2) % 256), 0,
                                 <<>>, Zero(TT(t).key), Zero(TT(t).elem),
                                 (depth + 2) % 256)),
               2)

\* the target keeps v whatever the decoder did to the copy
keeping(v, r) == [r EXCEPT !.v = v]

\* elem := v.Elem() is the invalid Value for a nil interface (elem.Type()
\* panics) and otherwise a copy of the held value, which cannot be set
interfaceDecoder(data, v, depth) ==
    IF isNil(data) THEN Ret(v, depth)
    ELSE IF IsNilV(v) THEN Raise(v, depth, "panic")
    ELSE keeping(v, decode(DynType(v), data, DynVal(v), depth, FALSE))

\* v.Set(reflect.New(t.Elem())) and the pointee the decoder filled
pointerTo(r) == [r EXCEPT !.v = PtrV(@)]

ptrDecoder(t, data, v, depth, settable) ==
    IF isNil(data) THEN Ret(v, depth)       \* leave it nil
    ELSE IF ~settable THEN Raise(v, depth, "panic")
    ELSE pointerTo(decode(TT(t).elem, data, Zero(TT(t).elem), depth, TRUE))

\* the rest of a round of the field loop once the field decoder yielded r
fieldDecoded(fields, sl, i, offset, v, n, f, r) ==
    IF r.err # "" THEN Raise(setNested(f.index, v, r.v), r.depth, r.err)
    ELSE decodeFields(fields, sl, i + 1, offset + f.complexity + 1,
                      setNested(f.index, v, r.v), r.depth, n)

\* one round of the loop of structDecoder.decode: fv is f.findNested(v)
decodeField(fields, sl, i, offset, v, depth, n, fv) ==
    IF ~fv.found THEN Raise(v, depth, "error")
    ELSE IF slicePanics(sl, offset, fields[i].complexity + 1)
         THEN Raise(v, depth, "panic")
    ELSE fieldDecoded(fields, sl, i, offset, v, n, fields[i],
                      decode(fields[i].typ,
                             slice(sl, offset, fields[i].complexity + 1),
                             fv.v, depth, TRUE))

\* the loop of structDecoder.decode from field i (1-based) at slot offset
decodeFields(fields, sl, i, offset, v, depth, n) ==
    IF i > Len(fields)
    THEN IF offset # n THEN Raise(v, depth, "error") ELSE Ret(v, depth)
    ELSE decodeField(fields, sl, i, offset, v, depth, n,
                     findNested(fields[i].index, v))

\* structDecoder.decode once the slicer sl is made
decodeStruct(t, sl, depth) ==
    IF numSlices(sl) = 0 THEN Ret(Zero(t), depth)      \* empty struct
    ELSE IF numSlices(sl) # complexityMap[t] + 1
         THEN Raise(Zero(t), depth, "UnmarshalTypeError")
    ELSE decodeFields(cachedTypeFields(t), sl, 1, 0, Zero(t), depth,
                      numSlices(sl))

structDecoder(t, data, v, depth, settable) ==
    IF ~settable THEN Raise(v, depth, "panic")
    ELSE decodeStruct(t, newSlicer(data, (depth + 1) % 256), depth)

\* the switch of newTypeDecoder on t.Kind(), applied
newTypeDecoder(k, t, data, v, depth, settable) ==
    CASE k = "bool"    -> boolDecoder(data, v, depth, settable)
      [] k = "int"     -> intDecoder(data, v, depth, settable)
      [] k = "uint8"   -> uintDecoder(data, v, depth, settable)
      [] k = "float64" -> floatDecoder(data, v, depth, settable)
      [] k = "string"  -> stringDecoder(data, v, depth, settable)
      [] k = "slice"   -> IF Kind(TT(t).elem) = "uint8"
                          THEN byteSliceDecoder(data, v, depth, settable)
                          ELSE sliceDecoder(t, data, v, depth, settable)
      [] k = "array"   -> IF Kind(TT(t).elem) = "uint8"
                          THEN byteArrayDecoder(t, data, v, depth, settable)
                          ELSE arrayDecoder(t, data, v, depth, settable)
      [] k = "map"     -> mapDecoder(t, data, v, depth, settable)
      [] k = "struct"  -> structDecoder(t, data, v, depth, settable)
      [] k = "iface"   -> interfaceDecoder(data, v, depth)
      [] k = "ptr"     -> ptrDecoder(t, data, v, depth, settable)
      [] OTHER         -> unsupportedTypeDecoder(v, depth)

\* typeDecoder(t)(d, data, v): the decoder newTypeDecoder builds for t, applied
decode(t, data, v, depth, settable) ==
    IF PtrUnmarshals(t) THEN unmarshalerDecoder(t, data, v, depth, settable)
    ELSE newTypeDecoder(Kind(t), t, data, v, depth, settable)

\* An Unmarshal argument is [form, typ, v]: "untyped" (a nil interface{}),
\* "value" (a typ that is no pointer), "nilptr" (a nil *typ), or "ptr" (a
\* pointer to a typ that holds v).  Unmarshal yields [err, v, ran]: the error
\* ("" for nil, "panic" for a fault that escapes), what the argument holds
\* afterwards, and whether a decoder ran.
Decoded(r) == [err |-> r.err, v |-> r.v, ran |-> TRUE]

Unmarshal(data, target) ==
    CASE target.form = "untyped" ->        \* rv.Type() on the invalid Value
            [err |-> "panic", v |-> target.v, ran |-> FALSE]
      [] target.form \in {"value", "nilptr"} ->
            [err |-> "InvalidUnmarshalError", v |-> target.v, ran |-> FALSE]
      [] target.form = "ptr" /\ target.typ \notin Sized ->
            \* typeDecoder(rv.Type()) overflows the stack in complexity
            [err |-> "overflow", v |-> target.v, ran |-> FALSE]
      [] target.form = "ptr" /\ target.typ \in Sized ->
            Decoded(decode(target.typ, data, target.v, 0, TRUE))

\* a fresh target of type t: reflect.New(t)
Fresh(t) == [form |-> "ptr", typ |-> t, v |-> Zero(t)]

-----------------------------------------------------------------------------
(* The values the model hands to Marshal.                                  *)

IntVals   == {-1, 0, 12}
StrVals   == {<<>>, <<97>>, Nil, <<97, 2, 98>>}       \* "", "a", "\N", "a\x02b"
BlobVals  == {<<>>, <<98>>, Nil}
FloatVals == {FloatV(0, 4), FloatV(1, 0)}             \* 4 and NaN

SeqsUpTo(S, n) == UNION {[1..k -> S] : k \in 0..n}

RECURSIVE Product(_)
\* the sequences that take their i-th element from the i-th set of ss
Product(ss) ==
    IF ss = <<>> THEN {<<>>}
    ELSE {<<h>> \o tl : h \in Head(ss), tl \in Product(Tail(ss))}

DistinctKeys(kvs) ==
    \A i, j \in 1..Len(kvs) : i # j => kvs[i][1] # kvs[j][1]

RECURSIVE Vals(_, _)
\* the values of type t with sequences and maps no longer than n, and those
\* nested in them no longer than n - 1
Vals(t, n) ==
    LET d == TT(t)
        m == IF n > 0 THEN n - 1 ELSE 0
    IN  CASE d.kind = "bool"    -> {BoolV(0), BoolV(1)}
          [] d.kind = "int"     -> {IntV(i) : i \in IntVals}
          [] d.kind = "uint8"   -> {UintV(7)}
          [] d.kind = "float64" -> FloatVals
          [] d.kind = "string"  -> {StrV(x) : x \in StrVals}
          [] d.kind = "chan"    -> {ChanV}
          [] d.kind = "iface"   -> {NilV, IfaceV("int", IntV(12)),
                                    IfaceV("*int", PtrV(IntV(12)))}
          [] d.kind = "slice"   ->
                IF Kind(d.elem) = "uint8"
                THEN {NilV} \cup {BytesV(x) : x \in BlobVals}
                ELSE {NilV} \cup {ListV(x) : x \in SeqsUpTo(Vals(d.elem, m), n)}
          [] d.kind = "array"   ->
                IF Kind(d.elem) = "uint8"
                THEN {BArrV(Nil), BArrV(<<97, 98>>)}
                ELSE {ListV(x) : x \in [1..d.len -> Vals(d.elem, m)]}
          [] d.kind = "map"     ->
                {NilV} \cup
                {MapV(x) : x \in {kvs \in SeqsUpTo(Vals(d.key, m) \X Vals(d.elem, m), n) :
                                     DistinctKeys(kvs)}}
          [] d.kind = "ptr"     -> {NilV} \cup {PtrV(x) : x \in Vals(d.elem, n)}
          [] d.kind = "struct"  ->
                {RecV(x) : x \in Product([i \in 1..Len(d.fields) |->
                                             Vals(d.fields[i].typ, n)])}

\* the types of the values handed to Marshal
RootTypes ==
    {"bool", "int", "string", "float64", "[]int", "[]string", "[]float64",
     "[]uint8", "[]Pair", "[]chan int", "[2]uint8", "[2]B", "[2]int",
     "*int", "*Pair", "*Custom", "*CustomP", "*CustomErr", "[2]Custom",
     "map[int]int", "map[int]*int", "map[int]Pair", "Pair", "Empty",
     "WithEmpty", "WithOpt", "Hidden", "WithSeq", "WithMap", "Custom",
     "CustomP", "CustomErr", "WithCustom", "WithChan", "WithIface", "Diamond"}

Inputs ==
    {<<Untyped, NilV>>} \cup UNION {{<<t, v>> : v \in Vals(t, MaxLen)} : t \in RootTypes}

\* values whose encoding fails below a Sequence or a Map
Failing ==
    {<<"[]float64", ListV(<<FloatV(1, 0)>>)>>,
     <<"map[int]float64", MapV(<< <<IntV(1), FloatV(1, 0)>> >>)>>}

-----------------------------------------------------------------------------
(* Marshal and the pool of encodeStates.  The pool holds at most one idle  *)
(* encodeState, of which only the depth outlives Reset.                    *)

\* newEncodeState: the pooled state after Reset when Get returns it (fromPool),
\* else new(encodeState); yields the depth the call starts with
newEncodeState(p, fromPool) == IF fromPool /\ p # <<>> THEN p[1] ELSE 0

\* release: encodeStatePool.Put(e)
release(e) == <<e.depth>>

\* what Marshal leaves and returns once e.marshal has returned on e, which
\* started at depth0: the deferred release, the copy of e.Bytes() or the error
Returned(depth0, e) ==
    [pool   |-> release(e),
     depth0 |-> depth0,
     bytes  |-> IF e.err = "" THEN e.buf ELSE <<>>,
     err    |-> e.err,
     depth1 |-> e.depth]

\* Marshal(v) on the pool p: [pool, depth0, bytes, err, depth1]
Marshal(p, fromPool, in, rev) ==
    Returned(newEncodeState(p, fromPool),
             marshal(newEncodeState(p, fromPool), in, rev))

\* the orders in which MapKeys can come matter for maps only
RECURSIVE HasMap(_)
HasMap(v) ==
    \/ Tag(v) = "map"
    \/ Tag(v) \in {"list", "rec", "ptr"} /\ \E i \in 1..Len(Payload(v)) : HasMap(Payload(v)[i])

Orders(in) == IF HasMap(in[2]) THEN BOOLEAN ELSE {FALSE}

\* call is the last call of the facade that returned: the operation, the type
\* and value it was given, the depth and the MapKeys order its encodeState
\* started with, the bytes and error it returned, and for Unmarshal what the
\* target holds and whether a decoder ran
NoCall ==
    [op |-> "none", typ |-> "", val |-> NilV, depth0 |-> 0, rev |-> FALSE,
     data |-> <<>>, err |-> "", res |-> NilV, ran |-> FALSE]

CodecInit ==
    /\ input \in Inputs
    /\ pool = <<>>
    /\ call = NoCall
    /\ din = [data |-> <<>>, target |-> Fresh("int")]

\* Marshal(input)
MarshalInput ==
    /\ call.op = "none"
    /\ \E fromPool \in BOOLEAN, rev \in Orders(input) :
          \E r \in {Marshal(pool, fromPool, input, rev)} :
          /\ r.depth1 <= MaxLeak
          /\ pool' = r.pool
          /\ call' = [NoCall EXCEPT !.op = "Marshal", !.typ = input[1],
                                    !.val = input[2], !.depth0 = r.depth0,
                                    !.rev = rev, !.data = r.bytes,
                                    !.err = r.err]
    /\ UNCHANGED <<sliceVars, memVars, input, din, cacheVars, streamVars>>

\* Marshal of a value whose encoding fails, by another caller
MarshalFailing ==
    /\ call.op = "none"
    /\ \E in \in Failing, fromPool \in BOOLEAN :
          \E r \in {Marshal(pool, fromPool, in, FALSE)} :
          /\ r.depth1 <= MaxLeak
          /\ pool' = r.pool
    /\ UNCHANGED <<sliceVars, memVars, input, call, din, cacheVars, streamVars>>

\* the type of a fresh target for the value Marshal was given
TargetType(t) == IF t = Untyped THEN "interface {}" ELSE t

\* Unmarshal(data, ptr) of the bytes Marshal returned into reflect.New(typ)
UnmarshalOutput ==
    /\ call.op = "Marshal"
    /\ call.err = ""
    /\ \E r \in {Unmarshal(call.data, Fresh(TargetType(call.typ)))} :
       call' = [call EXCEPT !.op = "Unmarshal", !.err = r.err, !.res = r.v,
                            !.ran = r.ran]
    /\ UNCHANGED <<sliceVars, memVars, input, pool, din, cacheVars, streamVars>>

-----------------------------------------------------------------------------
(* The parts of the state a specification leaves alone.                    *)

\* the types the compilation machine is asked for, and all they reach
CacheTypes == {"int", "Tree", "[]Tree", "Dir", "map[int]Dir", "Node", "*Node"}

Threads == 1..NumThreads

\* what a thread has of its call of typeEncoder / typeDecoder: st is "idle",
\* "running", "done" or "overflow"; fn is the function returned
NotAsked == [st |-> "idle", c |-> "", t |-> "", fn |-> <<"none", 0>>]

CodecIdle ==
    /\ input = <<Untyped, NilV>>
    /\ pool = <<>>
    /\ call = NoCall
    /\ din = [data |-> <<>>, target |-> Fresh("int")]

\* empty caches, no thread running
CacheInit ==
    /\ encCache = [t \in CacheTypes |-> <<"none", 0>>]
    /\ decCache = [t \in CacheTypes |-> <<"none", 0>>]
    /\ fldCache = {}
    /\ cpxCache = {}
    /\ stack = [th \in Threads |-> <<>>]
    /\ built = [c \in {"enc", "dec"} |-> [t \in CacheTypes |-> <<>>]]
    /\ got = [th \in Threads |-> NotAsked]

\* no slicer but those of the decoders
NoSlicing ==
    [data |-> <<>>, delimiter |-> 0, op |-> "none", offset |-> 0,
     length |-> 0, n |-> 0, out |-> <<>>, panics |-> FALSE]

\* no byte array is followed
NoMem ==
    [buf |-> <<>>, ret |-> [alias |-> FALSE, bytes |-> <<>>], later |-> 0,
     reused |-> FALSE]

SlicerIdle == slicing = NoSlicing /\ mem = NoMem

StreamIdle ==
    /\ SlicerIdle
    /\ ctxDone = FALSE
    /\ srcCh = [buf |-> <<>>, closed |-> FALSE]
    /\ writer = <<>>
    /\ encAll = [pc |-> "select", ret |-> ""]
    /\ reader = <<>>
    /\ sink = <<>>
    /\ decAll = [pc |-> "select", ret |-> "", typ |-> "int", val |-> NilV]
    /\ encLog = <<>>
    /\ scanner = [rest |-> <<>>, err |-> ""]
    /\ decLog = <<>>

-----------------------------------------------------------------------------
(* SpecCodec: Marshal of one input on a pool that other calls have used,   *)
(* and Unmarshal of what Marshal returned.                                 *)

InitCodec == CodecInit /\ CacheInit /\ StreamIdle

NextCodec ==
    \/ MarshalInput
    \/ MarshalFailing
    \/ UnmarshalOutput

SpecCodec == InitCodec /\ [][NextCodec]_vars

-----------------------------------------------------------------------------
(* SpecDecode: Unmarshal of given bytes into a given argument.             *)

\* "", "\N", "1", "a", "!", "256", "true", "1\x011", "1\x021", "1\x012\x013",
\* "1\x03a", "1\x031\x022\x03\N"
DecodeData ==
    {<<>>, Nil, <<49>>, <<97>>, <<33>>, <<50, 53, 54>>, TrueBytes,
     <<49, 1, 49>>, <<49, 2, 49>>, <<49, 1, 50, 1, 51>>, <<49, 3, 97>>,
     <<49, 3, 49, 2, 50, 3>> \o Nil}

\* the types of the fresh targets
DecodeTypes ==
    {"bool", "int", "uint8", "float64", "string", "[]int", "[]uint8",
     "[2]int", "[2]uint8", "[2]B", "*int", "map[int]int", "map[int]*int",
     "Pair", "Empty",
     "WithEmpty", "WithOpt", "Hidden", "Unm", "WithIface", "interface {}"}

\* the arguments: an untyped nil, non-pointers, nil pointers, pointers to fresh
\* values, pointers to an interface{} that holds an int or a *int, and
\* pointers to a *int and to records that hold values already
DecodeTargets ==
    {[form |-> "untyped", typ |-> Untyped, v |-> NilV],
     [form |-> "value", typ |-> "int", v |-> IntV(12)],
     [form |-> "value", typ |-> "Pair", v |-> Zero("Pair")],
     [form |-> "nilptr", typ |-> "int", v |-> NilV],
     [form |-> "nilptr", typ |-> "Pair", v |-> NilV],
     [form |-> "ptr", typ |-> "interface {}", v |-> IfaceV("int", IntV(12))],
     [form |-> "ptr", typ |-> "interface {}",
      v |-> IfaceV("*int", PtrV(IntV(12)))],
     [form |-> "ptr", typ |-> "*int", v |-> PtrV(IntV(12))],
     [form |-> "ptr", typ |-> "Pair", v |-> RecV(<<IntV(12), IntV(7)>>)],
     [form |-> "ptr", typ |-> "WithOpt",
      v |-> RecV(<<IntV(12), PtrV(RecV(<<IntV(1), IntV(2)>>))>>)],
     [form |-> "ptr", typ |-> "Node", v |-> RecV(<<IntV(12), NilV>>)]}
    \cup {Fresh(t) : t \in DecodeTypes}

InitDecode ==
    /\ input = <<Untyped, NilV>>
    /\ pool = <<>>
    /\ call = NoCall
    /\ din \in [data : DecodeData, target : DecodeTargets]
    /\ CacheInit
    /\ StreamIdle

\* Unmarshal(din.data, din.target)
UnmarshalInput ==
    /\ call.op = "none"
    /\ \E r \in {Unmarshal(din.data, din.target)} :
       call' = [NoCall EXCEPT !.op = "Unmarshal", !.typ = din.target.typ,
                              !.val = din.target.v, !.data = din.data,
                              !.err = r.err, !.res = r.v, !.ran = r.ran]
    /\ UNCHANGED <<sliceVars, memVars, input, pool, din, cacheVars, streamVars>>

NextDecode == UnmarshalInput

SpecDecode == InitDecode /\ [][NextDecode]_vars

-----------------------------------------------------------------------------
(* SpecCompile: goroutines that call typeEncoder and typeDecoder on the    *)
(* shared caches.  A goroutine's stack holds the frames [fn, c, t, pc,     *)
(* todo] of its calls: the function, the cache it works on ("enc", "dec"), *)
(* its type, where it stands, and the calls its body still has to make.    *)
(* A cache entry is <<"none", 0>>, <<"indirect", th>> (the func that       *)
(* waits, stored by th) or <<"real", th>> (the func th built).             *)

\* the types typeEncoder and typeDecoder are called with from outside
CallTypes == {"Tree", "[]Tree", "Dir", "Node"}

Frame(fn, c, t, pc, todo) ==
    [fn |-> fn, c |-> c, t |-> t, pc |-> pc, todo |-> todo]

\* a call of typeEncoder(t) (c = "enc") or typeDecoder(t) (c = "dec")
typeCodec(c, t) == <<"typeCodec", c, t>>

\* the calls the body of newTypeEncoder(t) / newTypeDecoder(t) makes: the
\* constructors newSequenceEncoder, newMapEncoder, newStructEncoder,
\* newPtrEncoder and their decoder twins
newTypeCodecCalls(c, t) ==
    IF c = "enc" /\ (Implements(t) \/ PtrImplements(t)) THEN <<>>
    ELSE IF c = "dec" /\ PtrUnmarshals(t) THEN <<>>
    ELSE CASE Kind(t) \in {"slice", "array"} ->
                 IF Kind(TT(t).elem) = "uint8" THEN <<>>
                 ELSE <<typeCodec(c, TT(t).elem)>>
           [] Kind(t) = "map" ->
                 <<typeCodec(c, TT(t).key), typeCodec(c, TT(t).elem)>>
           [] Kind(t) = "struct" -> << <<"cachedTypeFields", "", t>> >>
           [] Kind(t) = "ptr" -> <<typeCodec(c, TT(t).elem)>>
           [] OTHER -> <<>>

RECURSIVE fieldCalls(_)
\* the field literal of newTypeFields for each exported field type met
fieldCalls(seen) ==
    IF seen = <<>> THEN <<>>
    ELSE << <<"cachedComplexity", "", Head(seen)>>,
            typeCodec("enc", Head(seen)), typeCodec("dec", Head(seen)) >>
         \o fieldCalls(Tail(seen))

\* the calls the body of newTypeFields(t) makes
newTypeFieldsCalls(t) == fieldCalls(scan(t).seen)

RECURSIVE exportedCalls(_)
\* c += cachedComplexity(indirect(f.Type)) + 1 for each exported field
exportedCalls(fs) ==
    IF fs = <<>> THEN <<>>
    ELSE (IF Head(fs).exported
          THEN << <<"cachedComplexity", "", indirect(Head(fs).typ)>> >>
          ELSE <<>>) \o exportedCalls(Tail(fs))

\* the calls the body of complexity(t) makes
complexityCalls(t) ==
    IF Kind(indirect(t)) # "struct" THEN <<>>
    ELSE exportedCalls(TT(indirect(t)).fields)

\* the frame a call starts in
Enter(cl) ==
    CASE cl[1] = "typeCodec"        -> Frame("typeCodec", cl[2], cl[3], "load", <<>>)
      [] cl[1] = "cachedTypeFields" -> Frame("cachedTypeFields", "", cl[3], "load", <<>>)
      [] cl[1] = "cachedComplexity" -> Frame("cachedComplexity", "", cl[3], "load", <<>>)

\* a LoadOrStore that always stores
StoreAlways(m, t, v) ==
    [m |-> [m EXCEPT ![t] = v], actual |-> v, loaded |-> FALSE]

\* sync.Map.LoadOrStore(t, v) on the cache m: the map afterwards, the value
\* it returns and whether that value was loaded
LoadOrStore(m, t, v) ==
    IF m[t][1] # "none"
    THEN [m |-> m, actual |-> m[t], loaded |-> TRUE]
    ELSE [m |-> [m EXCEPT ![t] = v], actual |-> v, loaded |-> FALSE]

Crashed == \E th \in Threads : got[th].st = "overflow"

Running(th) == got[th].st = "running" /\ ~Crashed /\ stack[th] # <<>>

Top(th) == stack[th][Len(stack[th])]

\* the stack of th with its top frame replaced by the frames fs
Replaced(th, fs) == SubSeq(stack[th], 1, Len(stack[th]) - 1) \o fs

\* the top frame is a call of typeEncoder / typeDecoder at pc
AtCodec(th, pc) ==
    Running(th) /\ Top(th).fn = "typeCodec" /\ Top(th).pc = pc

Cache(c) == IF c = "enc" THEN encCache ELSE decCache

\* th's top frame returns: the outermost call hands fn to the caller
Returns(th, fn) ==
    /\ stack' = [stack EXCEPT ![th] = Replaced(th, <<>>)]
    /\ got' = IF Len(stack[th]) = 1
              THEN [got EXCEPT ![th].st = "done", ![th].fn = fn]
              ELSE got

\* a goroutine calls typeEncoder(t) or typeDecoder(t)
Call ==
    \E th \in Threads, c \in {"enc", "dec"}, t \in CallTypes :
        /\ got[th].st = "idle"
        /\ ~Crashed
        /\ got' = [got EXCEPT ![th] = [st |-> "running", c |-> c, t |-> t,
                                       fn |-> <<"none", 0>>]]
        /\ stack' = [stack EXCEPT ![th] = <<Enter(typeCodec(c, t))>>]
        /\ UNCHANGED <<sliceVars, memVars, encCache, decCache, fldCache, cpxCache, built,
                       codecVars, streamVars>>

\* if fi, ok := encoderCache.Load(t); ok { return fi }
CacheLoad ==
    \E th \in Threads :
        /\ AtCodec(th, "load")
        /\ IF Cache(Top(th).c)[Top(th).t][1] # "none"
           THEN Returns(th, Cache(Top(th).c)[Top(th).t])
           ELSE /\ stack' = [stack EXCEPT
                                ![th] = Replaced(th, <<[Top(th) EXCEPT !.pc = "los"]>>)]
                /\ got' = got
        /\ UNCHANGED <<sliceVars, memVars, encCache, decCache, fldCache, cpxCache, built,
                       codecVars, streamVars>>

\* fi, loaded := encoderCache.LoadOrStore(t, indirect); if loaded { return fi }
CacheLoadOrStore ==
    \E th \in Threads :
        /\ AtCodec(th, "los")
        /\ \E r \in {LoadOrStore(Cache(Top(th).c), Top(th).t, <<"indirect", th>>)} :
              /\ IF Top(th).c = "enc"
                 THEN encCache' = r.m /\ decCache' = decCache
                 ELSE decCache' = r.m /\ encCache' = encCache
              /\ IF r.loaded
                 THEN Returns(th, r.actual)
                 ELSE /\ stack' = [stack EXCEPT
                                     ![th] = Replaced(th, <<[Top(th) EXCEPT !.pc = "build"]>>)]
                      /\ got' = got
        /\ UNCHANGED <<sliceVars, memVars, fldCache, cpxCache, built, codecVars, streamVars>>

\* f = newTypeEncoder(t): the constructor starts
Construct ==
    \E th \in Threads :
        /\ AtCodec(th, "build")
        /\ Len(stack[th]) < MaxStack
        /\ built' = [built EXCEPT ![Top(th).c][Top(th).t] = Append(@, th)]
        /\ stack' = [stack EXCEPT
                        ![th] = Replaced(th,
                                    <<[Top(th) EXCEPT !.pc = "store"],
                                      Frame("newTypeCodec", Top(th).c, Top(th).t, "calls",
                                            newTypeCodecCalls(Top(th).c, Top(th).t))>>)]
        /\ UNCHANGED <<sliceVars, memVars, encCache, decCache, fldCache, cpxCache, got,
                       codecVars, streamVars>>

\* encoderCache.Store(t, f); return f
CacheStore ==
    \E th \in Threads :
        /\ AtCodec(th, "store")
        /\ IF Top(th).c = "enc"
           THEN /\ encCache' = [encCache EXCEPT ![Top(th).t] = <<"real", th>>]
                /\ decCache' = decCache
           ELSE /\ decCache' = [decCache EXCEPT ![Top(th).t] = <<"real", th>>]
                /\ encCache' = encCache
        /\ Returns(th, <<"real", th>>)
        /\ UNCHANGED <<sliceVars, memVars, fldCache, cpxCache, built, codecVars, streamVars>>

\* the body of newTypeEncoder, newTypeFields or complexity makes its next call
NextCall ==
    \E th \in Threads :
        /\ Running(th)
        /\ Top(th).pc = "calls"
        /\ Top(th).todo # <<>>
        /\ Len(stack[th]) < MaxStack
        /\ stack' = [stack EXCEPT
                        ![th] = Replaced(th,
                                    <<[Top(th) EXCEPT !.todo = Tail(@)],
                                      Enter(Head(Top(th).todo))>>)]
        /\ UNCHANGED <<sliceVars, memVars, encCache, decCache, fldCache, cpxCache, built, got,
                       codecVars, streamVars>>

\* the body of newTypeEncoder, newTypeFields or complexity returns
Return ==
    \E th \in Threads :
        /\ Running(th)
        /\ Top(th).pc = "calls"
        /\ Top(th).todo = <<>>
        /\ Returns(th, <<"none", 0>>)
        /\ UNCHANGED <<sliceVars, memVars, encCache, decCache, fldCache, cpxCache, built,
                       codecVars, streamVars>>

\* if f, ok := fieldsCache.Load(t); ok { return f }; else newTypeFields(t),
\* the argument of LoadOrStore, is called
FieldsLoad ==
    \E th \in Threads :
        /\ Running(th)
        /\ Top(th).fn = "cachedTypeFields"
        /\ Top(th).pc = "load"
        /\ IF Top(th).t \in fldCache
           THEN Returns(th, <<"none", 0>>)
           ELSE /\ Len(stack[th]) < MaxStack
                /\ stack' = [stack EXCEPT
                                ![th] = Replaced(th,
                                            <<[Top(th) EXCEPT !.pc = "los"],
                                              Frame("newTypeFields", "", Top(th).t, "calls",
                                                    newTypeFieldsCalls(Top(th).t))>>)]
                /\ got' = got
        /\ UNCHANGED <<sliceVars, memVars, encCache, decCache, fldCache, cpxCache, built,
                       codecVars, streamVars>>

\* f, _ := fieldsCache.LoadOrStore(t, fields); return f
FieldsLoadOrStore ==
    \E th \in Threads :
        /\ Running(th)
        /\ Top(th).fn = "cachedTypeFields"
        /\ Top(th).pc = "los"
        /\ fldCache' = fldCache \cup {Top(th).t}
        /\ Returns(th, <<"none", 0>>)
        /\ UNCHANGED <<sliceVars, memVars, encCache, decCache, cpxCache, built, codecVars,
                       streamVars>>

\* if c, ok := complexityMap.Load(t); ok { return c }; else complexity(t), the
\* argument of LoadOrStore, is called
ComplexityLoad ==
    \E th \in Threads :
        /\ Running(th)
        /\ Top(th).fn = "cachedComplexity"
        /\ Top(th).pc = "load"
        /\ IF Top(th).t \in cpxCache
           THEN Returns(th, <<"none", 0>>)
           ELSE /\ Len(stack[th]) < MaxStack
                /\ stack' = [stack EXCEPT
                                ![th] = Replaced(th,
                                            <<[Top(th) EXCEPT !.pc = "los"],
                                              Frame("complexity", "", Top(th).t, "calls",
                                                    complexityCalls(Top(th).t))>>)]
                /\ got' = got
        /\ UNCHANGED <<sliceVars, memVars, encCache, decCache, fldCache, cpxCache, built,
                       codecVars, streamVars>>

\* c, _ := complexityMap.LoadOrStore(t, c); return c
ComplexityLoadOrStore ==
    \E th \in Threads :
        /\ Running(th)
        /\ Top(th).fn = "cachedComplexity"
        /\ Top(th).pc = "los"
        /\ cpxCache' = cpxCache \cup {Top(th).t}
        /\ Returns(th, <<"none", 0>>)
        /\ UNCHANGED <<sliceVars, memVars, encCache, decCache, fldCache, built, codecVars,
                       streamVars>>

\* the top frame of th is about to call
Calls(th) ==
    \/ Top(th).fn = "typeCodec" /\ Top(th).pc = "build"
    \/ Top(th).pc = "calls" /\ Top(th).todo # <<>>
    \/ Top(th).fn = "cachedTypeFields" /\ Top(th).pc = "load"
                                       /\ Top(th).t \notin fldCache
    \/ Top(th).fn = "cachedComplexity" /\ Top(th).pc = "load"
                                       /\ Top(th).t \notin cpxCache

\* a call on a full stack: the runtime ends the process
StackOverflow ==
    \E th \in Threads :
        /\ Running(th)
        /\ Calls(th)
        /\ Len(stack[th]) >= MaxStack
        /\ got' = [got EXCEPT ![th].st = "overflow"]
        /\ UNCHANGED <<sliceVars, memVars, encCache, decCache, fldCache, cpxCache, stack, built,
                       codecVars, streamVars>>

InitCompile == CodecIdle /\ CacheInit /\ StreamIdle

NextCompile ==
    \/ Call
    \/ CacheLoad
    \/ CacheLoadOrStore
    \/ Construct
    \/ CacheStore
    \/ NextCall
    \/ Return
    \/ FieldsLoad
    \/ FieldsLoadOrStore
    \/ ComplexityLoad
    \/ ComplexityLoadOrStore
    \/ StackOverflow

SpecCompile == InitCompile /\ [][NextCompile]_vars

-----------------------------------------------------------------------------
(* SpecStream: an Encoder on a writer, with EncodeAll on a source channel, *)
(* and a Decoder on a reader, with DecodeAll to a sink channel, under one  *)
(* context.  writer holds the argument of every Write call, encLog every   *)
(* Encode call, srcCh the values sent and not yet received.                *)

\* NewEncoder / NewDecoder: '\n'
lineDelimiter == 10

\* the values sent to the Encoder: 12, []int{-1, 0}, []float64{NaN}
StreamVals ==
    {<<"int", IntV(12)>>,
     <<"[]int", ListV(<<IntV(-1), IntV(0)>>)>>,
     <<"[]float64", ListV(<<FloatV(1, 0)>>)>>}

\* what the reader holds: "", "12\n0\n", "12\n0", "12\nx\n7\n"
ReaderData ==
    {<<>>, <<49, 50, 10, 48, 10>>, <<49, 50, 10, 48>>,
     <<49, 50, 10, 120, 10, 55, 10>>}

\* what encoder.Encode does once e.marshal has returned: the line delimiter
\* and one Write of e.Bytes() if it succeeded
Encoded(r) ==
    [pool   |-> r.pool,
     depth0 |-> r.depth0,
     depth1 |-> r.depth1,
     err    |-> r.err,
     writes |-> IF r.err = "" THEN <<r.bytes \o <<lineDelimiter>>>> ELSE <<>>]

\* encoder.Encode(v) on the pool p
Encode(p, fromPool, in, rev) == Encoded(Marshal(p, fromPool, in, rev))

RECURSIVE IndexByte(_, _, _)
\* bytes.IndexByte(data, c) from position i (1-based): 0 when there is none
IndexByte(data, c, i) ==
    IF i > Len(data) THEN 0
    ELSE IF data[i] = c THEN i
    ELSE IndexByte(data, c, i + 1)

\* a split function that leaves the delimiter at the end of the token
splitAfter(data, delimiter) ==
    IF IndexByte(data, delimiter, 1) > 0
    THEN [token |-> SubSeq(data, 1, IndexByte(data, delimiter, 1)),
          rest  |-> SubSeq(data, IndexByte(data, delimiter, 1) + 1, Len(data))]
    ELSE [token |-> data, rest |-> <<>>]

\* splitBy(delimiter) on all the data that is left, at EOF: the token and
\* what is left after it
splitBy(data, delimiter) ==
    IF IndexByte(data, delimiter, 1) > 0
    THEN [token |-> SubSeq(data, 1, IndexByte(data, delimiter, 1) - 1),
          rest  |-> SubSeq(data, IndexByte(data, delimiter, 1) + 1, Len(data))]
    ELSE [token |-> data, rest |-> <<>>]

InitStream ==
    /\ CodecIdle
    /\ CacheInit
    /\ SlicerIdle
    /\ ctxDone = FALSE
    /\ srcCh = [buf |-> <<>>, closed |-> FALSE]
    /\ writer = <<>>
    /\ encAll = [pc |-> "select", ret |-> ""]
    /\ reader \in ReaderData
    /\ sink = <<>>
    /\ decAll = [pc |-> "select", ret |-> "", typ |-> "int", val |-> NilV]
    /\ encLog = <<>>
    /\ scanner = [rest |-> <<>>, err |-> ""]
    /\ decLog = <<>>

\* the producer sends a value on the source channel
Send ==
    /\ ~srcCh.closed
    /\ Len(srcCh.buf) + Len(encLog) < MaxRecords
    /\ \E in \in StreamVals : srcCh' = [srcCh EXCEPT !.buf = Append(@, in)]
    /\ UNCHANGED <<sliceVars, memVars, ctxDone, writer, encAll, reader, sink, decAll, encLog,
                   codecVars, cacheVars, scanVars>>

\* the producer closes the source channel
Close ==
    /\ ~srcCh.closed
    /\ srcCh' = [srcCh EXCEPT !.closed = TRUE]
    /\ UNCHANGED <<sliceVars, memVars, ctxDone, writer, encAll, reader, sink, decAll, encLog,
                   codecVars, cacheVars, scanVars>>

\* the context is cancelled
Cancel ==
    /\ ~ctxDone
    /\ ctxDone' = TRUE
    /\ UNCHANGED <<sliceVars, memVars, srcCh, writer, encAll, reader, sink, decAll, encLog,
                   codecVars, cacheVars, scanVars>>

\* the Encode call on in, with the MapKeys order rev, that yields r
EncodeStep(in, rev, r) ==
    /\ r.depth1 <= MaxLeak
    /\ pool' = r.pool
    /\ writer' = writer \o r.writes
    /\ encLog' = Append(encLog, [in |-> in, rev |-> rev, err |-> r.err])

\* EncodeAll: case v, more := <-ch with a value: enc.Encode(v); select takes
\* any case that is ready
EncodeAllRecv ==
    /\ encAll.pc = "select"
    /\ srcCh.buf # <<>>
    /\ \E fromPool \in BOOLEAN :
          \E r \in {Encode(pool, fromPool, Head(srcCh.buf), FALSE)} :
             /\ EncodeStep(Head(srcCh.buf), FALSE, r)
             /\ encAll' = IF r.err = "" THEN encAll
                          ELSE [pc |-> "returned", ret |-> "encode error"]
    /\ srcCh' = [srcCh EXCEPT !.buf = Tail(@)]
    /\ UNCHANGED <<sliceVars, memVars, ctxDone, reader, sink, decAll, input, call, din, cacheVars, scanVars>>

\* EncodeAll: case v, more := <-ch on the closed and drained channel
EncodeAllClosed ==
    /\ encAll.pc = "select"
    /\ srcCh.buf = <<>>
    /\ srcCh.closed
    /\ encAll' = [pc |-> "returned", ret |-> "nil"]
    /\ UNCHANGED <<sliceVars, memVars, ctxDone, srcCh, writer, reader, sink, decAll, encLog,
                   codecVars, cacheVars, scanVars>>

\* EncodeAll: case <-ctx.Done()
EncodeAllDone ==
    /\ encAll.pc = "select"
    /\ ctxDone
    /\ encAll' = [pc |-> "returned", ret |-> "ctx.Err"]
    /\ UNCHANGED <<sliceVars, memVars, ctxDone, srcCh, writer, reader, sink, decAll, encLog,
                   codecVars, cacheVars, scanVars>>

\* a call of enc.Encode(v) by the caller once EncodeAll has returned
EncodeCall ==
    /\ encAll.pc = "returned"
    /\ Len(srcCh.buf) + Len(encLog) < MaxRecords
    /\ \E in \in StreamVals, fromPool \in BOOLEAN :
          \E r \in {Encode(pool, fromPool, in, FALSE)} : EncodeStep(in, FALSE, r)
    /\ UNCHANGED <<sliceVars, memVars, ctxDone, srcCh, encAll, reader, sink, decAll, input, call,
                   din, cacheVars, scanVars>>

\* DecodeAll: the outer select, case <-ctx.Done()
DecodeAllDone ==
    /\ decAll.pc = "select"
    /\ ctxDone
    /\ decAll' = [decAll EXCEPT !.pc = "returned", !.ret = "ctx.Err"]
    /\ UNCHANGED <<sliceVars, memVars, ctxDone, srcCh, writer, encAll, reader, sink, encLog,
                   codecVars, cacheVars, scanVars>>

\* a DecodeAll that goes on to the next record when one fails
Decoded1Skip(r) ==
    IF r.err # ""
    THEN [decAll EXCEPT !.pc = "select"]
    ELSE [decAll EXCEPT !.pc = "send", !.val = r.v]

\* what DecodeAll does with the result r of Unmarshal on the token
Decoded1(r) ==
    IF r.err # ""
    THEN [decAll EXCEPT !.pc = "returned", !.ret = "decode error"]
    ELSE [decAll EXCEPT !.pc = "send", !.val = r.v]

\* DecodeAll: the outer select, default: dec.Decode(reflect.New(typ)); the
\* default case runs only while no other case is ready
DecodeAllDecode ==
    /\ decAll.pc = "select"
    /\ ~ctxDone
    /\ IF reader = <<>>
       THEN /\ decAll' = [decAll EXCEPT !.pc = "returned", !.ret = "nil"]
            /\ reader' = reader
       ELSE /\ reader' = splitBy(reader, lineDelimiter).rest
            /\ decAll' = Decoded1(Unmarshal(splitBy(reader, lineDelimiter).token,
                                            Fresh(decAll.typ)))
    /\ UNCHANGED <<sliceVars, memVars, ctxDone, srcCh, writer, encAll, sink, encLog, codecVars,
                   cacheVars, scanVars>>

\* DecodeAll: the inner select, case <-ctx.Done()
DecodeAllSendDone ==
    /\ decAll.pc = "send"
    /\ ctxDone
    /\ decAll' = [decAll EXCEPT !.pc = "returned", !.ret = "ctx.Err"]
    /\ UNCHANGED <<sliceVars, memVars, ctxDone, srcCh, writer, encAll, reader, sink, encLog,
                   codecVars, cacheVars, scanVars>>

\* DecodeAll: the inner select, case ch <- v; select takes any case that is
\* ready
DecodeAllSend ==
    /\ decAll.pc = "send"
    /\ sink' = Append(sink, decAll.val)
    /\ decAll' = [decAll EXCEPT !.pc = "select", !.val = NilV]
    /\ UNCHANGED <<sliceVars, memVars, ctxDone, srcCh, writer, encAll, reader, encLog, codecVars,
                   cacheVars, scanVars>>

NextStream ==
    \/ Send
    \/ Close
    \/ Cancel
    \/ EncodeAllRecv
    \/ EncodeAllClosed
    \/ EncodeAllDone
    \/ EncodeCall
    \/ DecodeAllDone
    \/ DecodeAllDecode
    \/ DecodeAllSendDone
    \/ DecodeAllSend

SpecStream == InitStream /\ [][NextStream]_vars

\* the steps of the goroutine that runs EncodeAll, and of the one that runs
\* DecodeAll
EncodeAllRuns == EncodeAllRecv \/ EncodeAllClosed \/ EncodeAllDone
DecodeAllRuns ==
    DecodeAllDone \/ DecodeAllDecode \/ DecodeAllSendDone \/ DecodeAllSend

\* both goroutines keep running, and the consumer of the sink keeps receiving
SpecStreamLive ==
    /\ SpecStream
    /\ WF_vars(EncodeAllRuns)
    /\ WF_vars(DecodeAllRuns)

-----------------------------------------------------------------------------
(* SpecShape: the shape analysis of a type, complexity(t) and              *)
(* cachedTypeFields(t), called on their own.                               *)

InitShape ==
    /\ input \in {<<t, NilV>> : t \in Sized}
    /\ pool = <<>>
    /\ call = NoCall
    /\ din = [data |-> <<>>, target |-> Fresh("int")]
    /\ CacheInit
    /\ StreamIdle

\* complexity(t)
Complexity ==
    /\ call.op = "none"
    /\ \E r \in {complexity(input[1])} :
          call' = [NoCall EXCEPT !.op = "complexity", !.typ = input[1],
                                 !.res = r]
    /\ UNCHANGED <<sliceVars, memVars, input, pool, din, cacheVars, streamVars>>

\* cachedTypeFields(t) of a struct type t
TypeFields ==
    /\ call.op = "none"
    /\ Kind(input[1]) = "struct"
    /\ \E r \in {cachedTypeFields(input[1])} :
          call' = [NoCall EXCEPT !.op = "cachedTypeFields", !.typ = input[1],
                                 !.res = r]
    /\ UNCHANGED <<sliceVars, memVars, input, pool, din, cacheVars, streamVars>>

NextShape ==
    \/ Complexity
    \/ TypeFields

SpecShape == InitShape /\ [][NextShape]_vars

-----------------------------------------------------------------------------
(* SpecReader: a Decoder on a stream, with Decode called by the caller.    *)
(* reader holds the whole stream the Decoder was made on, scanner what the *)
(* bufio.Scanner has not yet handed out and the error it has met.          *)

\* scanner.Buffer(make([]byte, 0, 100*1024), 10*1024*1024): the most bytes the
\* Scanner buffers for one token, 10 MiB in the code, scaled to 3 bytes here
maxTokenSize == 3

\* the longest stream the Decoder is made on
MaxStream == maxTokenSize + 2

\* the bytes of the streams: '\n', '0', '1', 'x'
StreamBytes == {lineDelimiter, 48, 49, 120}

\* the types of the targets handed to Decode
ReaderTypes == {"int", "[]int"}

\* bufio.NewScanner(r); scanner.Buffer(...); scanner.Split(splitBy(delimiter))
NewDecoder == [rest |-> <<>>, err |-> ""]

\* the Scanner finds no token in a full buffer: ErrTooLong, with the buffer
\* kept and the rest of the stream never read
tooLong(sc) ==
    [ok |-> FALSE, token |-> <<>>,
     sc |-> [rest |-> SubSeq(sc.rest, 1, maxTokenSize), err |-> "ErrTooLong"]]

\* the token splitBy finds in the buffered data
token(sc, delimiter, er) ==
    [ok |-> TRUE, token |-> splitBy(sc.rest, delimiter).token,
     sc |-> [rest |-> splitBy(sc.rest, delimiter).rest, err |-> er]]

\* Scanner.Scan() with the split function splitBy(delimiter): [ok, token, sc].
\* The buffer grows to maxTokenSize bytes; a delimiter among them ends a
\* token, the end of the stream ends the last one, and a full buffer without
\* a delimiter is ErrTooLong.  Once the Scanner has an error the split
\* function is called at EOF on what the buffer still holds.
Scan(sc, delimiter) ==
    IF sc.err # ""
    THEN IF sc.rest # <<>> THEN token(sc, delimiter, sc.err)
         ELSE [ok |-> FALSE, token |-> <<>>, sc |-> sc]
    ELSE IF sc.rest = <<>>
    THEN [ok |-> FALSE, token |-> <<>>, sc |-> [sc EXCEPT !.err = "EOF"]]
    ELSE IF IndexByte(sc.rest, delimiter, 1) \in 1..maxTokenSize
    THEN token(sc, delimiter, "")
    ELSE IF IndexByte(sc.rest, delimiter, 1) = 0 /\ Len(sc.rest) < maxTokenSize
    THEN token(sc, delimiter, "EOF")
    ELSE tooLong(sc)

\* the entry of decLog for a Decode call whose Unmarshal yielded u
unmarshalled(typ, data, u) ==
    [typ |-> typ, scanned |-> TRUE, data |-> data, err |-> u.err, res |-> u.v]

\* decoder.Decode once Scan has yielded r: Scanner.Err() or io.EOF, or
\* Unmarshal(dec.Scanner.Bytes(), v)
Scanned(r, typ) ==
    IF ~r.ok
    THEN [typ |-> typ, scanned |-> FALSE, data |-> <<>>,
          err |-> IF r.sc.err = "ErrTooLong" THEN "ErrTooLong" ELSE "EOF",
          res |-> Zero(typ)]
    ELSE unmarshalled(typ, r.token, Unmarshal(r.token, Fresh(typ)))

RECURSIVE Lines(_)
\* the lines of the stream s: every line delimiter ends one line, and what
\* follows the last delimiter is a line if it is not empty
Lines(s) ==
    IF s = <<>> THEN <<>>
    ELSE IF \A i \in 1..Len(s) : s[i] # lineDelimiter THEN <<s>>
    ELSE LET i == CHOOSE i \in 1..Len(s) :
                      /\ s[i] = lineDelimiter
                      /\ \A j \in 1..(i - 1) : s[j] # lineDelimiter
         IN  <<SubSeq(s, 1, i - 1)>> \o Lines(SubSeq(s, i + 1, Len(s)))

\* a Decoder that leaves a line it could not unmarshal in the Scanner
retried(sc, r, e) == IF e.scanned /\ e.err # "" THEN sc ELSE r.sc

\* the Scanner once Decode has returned the entry e: Scan has advanced past
\* the token before Unmarshal runs, whatever Unmarshal returns
afterDecode(sc, r, e) == r.sc

InitReader ==
    /\ CodecIdle
    /\ CacheInit
    /\ SlicerIdle
    /\ ctxDone = FALSE
    /\ srcCh = [buf |-> <<>>, closed |-> FALSE]
    /\ writer = <<>>
    /\ encAll = [pc |-> "select", ret |-> ""]
    /\ reader \in SeqsUpTo(StreamBytes, MaxStream)
    /\ sink = <<>>
    /\ decAll = [pc |-> "select", ret |-> "", typ |-> "int", val |-> NilV]
    /\ encLog = <<>>
    /\ scanner = [NewDecoder EXCEPT !.rest = reader]
    /\ decLog = <<>>

\* dec.Decode(v) with v = reflect.New(typ)
Decode ==
    /\ Len(decLog) < Len(Lines(reader)) + 2
    /\ \E typ \in ReaderTypes :
          \E r \in {Scan(scanner, lineDelimiter)} :
             /\ scanner' = afterDecode(scanner, r, Scanned(r, typ))
             /\ decLog' = Append(decLog, Scanned(r, typ))
    /\ UNCHANGED <<sliceVars, memVars, ctxDone, srcCh, writer, encAll, reader, sink, decAll,
                   encLog, codecVars, cacheVars>>

\* the caller has read the stream to its end: the last Decode returned io.EOF
ReadAll ==
    /\ decLog # <<>>
    /\ ~decLog[Len(decLog)].scanned
    /\ decLog[Len(decLog)].err = "EOF"

\* enc.Encode(v) of the next value Decode has decoded, in the order of the
\* Decode calls, once the stream is read to its end
Reencode ==
    /\ ReadAll
    /\ Len(encLog) < Len(decLog) - 1
    /\ decLog[Len(encLog) + 1].scanned
    /\ decLog[Len(encLog) + 1].err = ""
    /\ \E fromPool \in BOOLEAN :
          \E r \in {Encode(pool, fromPool,
                           <<decLog[Len(encLog) + 1].typ,
                             decLog[Len(encLog) + 1].res>>, FALSE)} :
             EncodeStep(<<decLog[Len(encLog) + 1].typ,
                          decLog[Len(encLog) + 1].res>>, FALSE, r)
    /\ UNCHANGED <<sliceVars, memVars, ctxDone, srcCh, encAll, reader, sink, decAll, input, call,
                   din, cacheVars, scanVars>>

NextReader ==
    \/ Decode
    \/ Reencode

SpecReader == InitReader /\ [][NextReader]_vars

-----------------------------------------------------------------------------
(* SpecSlicer: newSlicer on a byte region and a delimiter, and the calls   *)
(* of numSlices and slice on the slicer.                                   *)

\* the longest region handed to newSlicer
MaxRegion == 4

\* two delimiters and a byte that is none
RegionBytes == {1, 2, 97}

InitSlicer ==
    /\ CodecIdle
    /\ CacheInit
    /\ ctxDone = FALSE
    /\ srcCh = [buf |-> <<>>, closed |-> FALSE]
    /\ writer = <<>>
    /\ encAll = [pc |-> "select", ret |-> ""]
    /\ reader = <<>>
    /\ sink = <<>>
    /\ decAll = [pc |-> "select", ret |-> "", typ |-> "int", val |-> NilV]
    /\ encLog = <<>>
    /\ scanner = [rest |-> <<>>, err |-> ""]
    /\ decLog = <<>>
    /\ mem = NoMem
    /\ \E R \in SeqsUpTo(RegionBytes, MaxRegion), D \in {1, 2} :
          slicing = [NoSlicing EXCEPT !.data = R, !.delimiter = D]

\* newSlicer(data, delimiter).numSlices()
NumSlices ==
    /\ slicing.op = "none"
    /\ \E n \in {numSlices(newSlicer(slicing.data, slicing.delimiter))} :
          slicing' = [slicing EXCEPT !.op = "numSlices", !.n = n]
    /\ UNCHANGED <<codecVars, cacheVars, streamVars, memVars>>

\* what slicer.slice(offset, length) returns on the slicer s, or its panic
sliced(s, offset, length) ==
    IF slicePanics(s, offset, length) THEN [panics |-> TRUE, out |-> <<>>]
    ELSE [panics |-> FALSE, out |-> slice(s, offset, length)]

\* newSlicer(data, delimiter).slice(offset, length), in range or not
Slice ==
    /\ slicing.op = "none"
    /\ \E offset \in 0..MaxRegion, length \in 0..(MaxRegion + 1) :
          \E r \in {sliced(newSlicer(slicing.data, slicing.delimiter),
                           offset, length)} :
             slicing' = [slicing EXCEPT !.op = "slice", !.offset = offset,
                                        !.length = length,
                                        !.panics = r.panics, !.out = r.out]
    /\ UNCHANGED <<codecVars, cacheVars, streamVars, memVars>>

NextSlicer ==
    \/ NumSlices
    \/ Slice

SpecSlicer == InitSlicer /\ [][NextSlicer]_vars

-----------------------------------------------------------------------------
(* SpecAlias: a Marshal call, and the Marshal and Encode calls that follow *)
(* it, on the byte arrays they read and write.  mem.buf is the array       *)
(* behind the bytes.Buffer of the encodeState the first call used, which   *)
(* Reset leaves as it is; mem.ret is the slice the first call returned: an *)
(* array of its own, or a view of mem.buf.                                 *)

\* the calls made after the first
MaxLater == 2

\* the values of the first call
AliasInputs == {in \in Inputs : in[1] \in {"int", "string", "[]int"}}

\* e.Bytes(): a slice of the Buffer's array
aliased(buf) == [alias |-> TRUE, bytes |-> buf]

\* append([]byte(nil), e.Bytes()...): a new array with the same bytes
copied(buf) == [alias |-> FALSE, bytes |-> buf]

\* the bytes a holder of the slice sl reads while the array behind the
\* encodeState holds buf
Read(sl, buf) ==
    IF sl.alias
    THEN [i \in 1..Len(sl.bytes) |-> IF i <= Len(buf) THEN buf[i] ELSE sl.bytes[i]]
    ELSE sl.bytes

\* the array old once Reset and the writes of the bytes new have run on the
\* Buffer it is behind
Rewritten(old, new) == new \o SubSeq(old, Len(new) + 1, Len(old))

InitAlias ==
    /\ input \in AliasInputs
    /\ pool = <<>>
    /\ call = NoCall
    /\ din = [data |-> <<>>, target |-> Fresh("int")]
    /\ CacheInit
    /\ StreamIdle

\* the first call: Marshal(input) on a new encodeState
MarshalFirst ==
    /\ call.op = "none"
    /\ \E r \in {marshal(newEncodeState(pool, FALSE), input, FALSE)} :
          /\ r.err = ""
          /\ pool' = release(r)
          /\ call' = [NoCall EXCEPT !.op = "Marshal", !.typ = input[1],
                                    !.val = input[2], !.data = r.buf]
          /\ mem' = [mem EXCEPT !.buf = r.buf, !.ret = copied(r.buf)]
    /\ UNCHANGED <<input, din, cacheVars, streamVars, sliceVars>>

\* what a later call leaves that ran e.marshal to r, wrote tail after it, and
\* had the first call's encodeState from the pool (same) or another one
Later(r, tail, same) ==
    /\ r.depth <= MaxLeak
    /\ pool' = IF same THEN release(r) ELSE pool
    /\ mem' = [mem EXCEPT !.buf = IF same THEN Rewritten(@, r.buf \o tail) ELSE @,
                          !.later = @ + 1,
                          !.reused = @ \/ same]

\* a later Marshal(v), by any goroutine
MarshalLater ==
    /\ call.op = "Marshal"
    /\ mem.later < MaxLater
    /\ \E in \in StreamVals, same \in BOOLEAN :
          \E r \in {marshal(newEncodeState(pool, same), in, FALSE)} :
             Later(r, <<>>, same)
    /\ UNCHANGED <<input, call, din, cacheVars, streamVars, sliceVars>>

\* a later enc.Encode(v), by any goroutine: the line delimiter follows the
\* encoding in the Buffer when e.marshal succeeded
EncodeLater ==
    /\ call.op = "Marshal"
    /\ mem.later < MaxLater
    /\ \E in \in StreamVals, same \in BOOLEAN :
          \E r \in {marshal(newEncodeState(pool, same), in, FALSE)} :
             Later(r, IF r.err = "" THEN <<lineDelimiter>> ELSE <<>>, same)
    /\ UNCHANGED <<input, call, din, cacheVars, streamVars, sliceVars>>

NextAlias ==
    \/ MarshalFirst
    \/ MarshalLater
    \/ EncodeLater

SpecAlias == InitAlias /\ [][NextAlias]_vars

-----------------------------------------------------------------------------
(* Properties of Marshal and Unmarshal, stated on the last call.           *)

\* the bytes the codec uses as delimiters at the depths of the model
DelimiterBytes == 1..8

\* a leaf payload that holds no delimiter byte and is not the null sentinel
PlainLeaf(s) == s # Nil /\ \A i \in 1..Len(s) : s[i] \notin DelimiterBytes

RECURSIVE Plain(_, _)
\* v, of type t, is a value of a supported shape with no Map, no NaN, no
\* custom codec, no hidden field, no null Sequence or ByteBlob, and leaves
\* without delimiter bytes
Plain(t, v) ==
    /\ ~Implements(t) /\ ~PtrImplements(t) /\ ~PtrUnmarshals(t)
    /\ CASE Kind(t) \in {"bool", "int", "uint8"} -> TRUE
         [] Kind(t) = "float64" -> Payload(v)[1] = 0
         [] Kind(t) = "string"  -> PlainLeaf(Payload(v))
         [] Kind(t) = "slice"   ->
                /\ ~IsNilV(v)
                /\ IF Kind(TT(t).elem) = "uint8"
                   THEN Payload(v) # <<>> /\ PlainLeaf(Payload(v))
                   ELSE \A i \in 1..Len(Payload(v)) :
                            Plain(TT(t).elem, Payload(v)[i])
         [] Kind(t) = "array"   ->
                IF Kind(TT(t).elem) = "uint8"
                THEN TT(t).elem = "uint8" /\ PlainLeaf(Payload(v))
                ELSE \A i \in 1..Len(Payload(v)) :
                         Plain(TT(t).elem, Payload(v)[i])
         [] Kind(t) = "ptr"     ->
                IsNilV(v) \/ Plain(TT(t).elem, Payload(v)[1])
         [] Kind(t) = "struct"  ->
                \A i \in 1..Len(TT(t).fields) :
                    /\ TT(t).fields[i].exported
                    /\ Plain(TT(t).fields[i].typ, Payload(v)[i])
         [] OTHER               -> FALSE

\* C1: Unmarshal(Marshal(v)) into a fresh target of v's type succeeds and
\* yields v again, for every v of a supported shape without Map, NaN and
\* delimiter bytes in its leaves (on an encodeState that starts at depth 0)
RoundTrip ==
    (call.op = "Unmarshal" /\ call.depth0 = 0 /\ call.typ # Untyped
                           /\ Plain(call.typ, call.val))
        => (call.err = "" /\ call.res = call.val)

\* the nullable shapes: Sequence, ByteBlob, Map, Optional, Polymorphic
Nullable(t) == t = Untyped \/ Kind(t) \in {"slice", "map", "ptr", "iface"}

\* what a fresh target of the nullable type t holds once the encoding of t's
\* null value is decoded into it
NullDecoded(t) ==
    IF t = Untyped THEN NilV
    ELSE CASE Kind(t) = "slice" -> IF Kind(TT(t).elem) = "uint8"
                                   THEN BytesV(Nil) ELSE ListV(<<>>)
           [] Kind(t) = "map"   -> MapV(<<>>)
           [] OTHER             -> NilV

\* a call that marshalled the null value of a nullable type and unmarshalled
\* the result
NullRoundTrip ==
    call.op = "Unmarshal" /\ Nullable(call.typ) /\ IsNilV(call.val)

\* C2 (as the code has it): the encoding of the null value of a nullable type
\* decodes without error; an Optional and a Polymorphic target stay null, a
\* Sequence and a Map become empty and non-null, a ByteBlob becomes the two
\* bytes of the null sentinel
NullDecodes ==
    NullRoundTrip => (call.err = "" /\ call.res = NullDecoded(call.typ))

\* C2 (as stated): the encoding of the null value of every nullable type
\* decodes to the null value again
NullIdempotence ==
    NullRoundTrip => (call.err = "" /\ IsNilV(call.res))

\* C2: a null Sequence went through Marshal and Unmarshal and came back empty
NullSequenceDecoded ==
    /\ NullRoundTrip
    /\ call.typ = "[]int"
    /\ call.res = ListV(<<>>)

\* C3: every Marshal returns the bytes and the error a never-used encodeState
\* (empty buffer, depth 0) yields for the same value
FreshStatePerCall ==
    call.op = "Marshal" =>
        /\ call.data = Returned(0, marshal(0, <<call.typ, call.val>>,
                                           call.rev)).bytes
        /\ call.err = Returned(0, marshal(0, <<call.typ, call.val>>,
                                          call.rev)).err

RECURSIVE DelimiterFree(_)
\* no leaf payload of v holds a delimiter byte
DelimiterFree(v) ==
    CASE Tag(v) \in {"str", "bytes", "barr"} ->
            \A i \in 1..Len(Payload(v)) : Payload(v)[i] \notin DelimiterBytes
      [] Tag(v) \in {"list", "rec", "ptr"} ->
            \A i \in 1..Len(Payload(v)) : DelimiterFree(Payload(v)[i])
      [] Tag(v) = "map" ->
            \A i \in 1..Len(Payload(v)) :
                DelimiterFree(Payload(v)[i][1]) /\ DelimiterFree(Payload(v)[i][2])
      [] Tag(v) = "iface" -> DelimiterFree(DynVal(v))
      [] OTHER -> TRUE

\* C6: the bytes the record encoder emits at depth 0 for a record of type T
\* with a visible field, whose leaves hold no delimiter byte, contain exactly
\* complexity(T) bytes equal to 1
ComplexityIdentity ==
    (call.op = "Marshal" /\ call.err = "" /\ call.depth0 = 0
        /\ call.typ # Untyped /\ Kind(call.typ) = "struct"
        /\ ~Implements(call.typ) /\ ~PtrImplements(call.typ)
        /\ cachedTypeFields(call.typ) # <<>>
        /\ DelimiterFree(call.val))
        => CountByte(call.data, 1) = complexityMap[call.typ]

-----------------------------------------------------------------------------
(* Properties of Unmarshal on a given argument.                            *)

\* C7: Unmarshal into a pointer to a value of a supported shape, whatever
\* the bytes, succeeds or returns an error: no panic escapes to the caller
TerminalOutcome ==
    (call.op = "Unmarshal" /\ din.target.form = "ptr")
        => call.err # "panic"

\* C8: Unmarshal with an argument that is no pointer, a nil pointer or an
\* untyped nil returns an InvalidUnmarshalError, runs no decoder and changes
\* nothing
InvalidTarget ==
    (call.op = "Unmarshal" /\ din.target.form \in {"value", "nilptr", "untyped"})
        => /\ call.err = "InvalidUnmarshalError"
           /\ ~call.ran
           /\ call.res = din.target.v

-----------------------------------------------------------------------------
(* Properties of the compilation of codecs.                                *)

\* C4: building the encoder and the decoder of a self-referential record
\* returns: no goroutine exhausts its stack in it
CompilationTerminates == \A th \in Threads : got[th].st # "overflow"

\* C5: newTypeEncoder(t) and newTypeDecoder(t) run at most once for a type,
\* and a call of typeEncoder(t) or typeDecoder(t) returns a func of the one
\* goroutine that builds: the indirect func it stored or the func it built
SingleCompilation ==
    /\ \A c \in {"enc", "dec"}, t \in CacheTypes : Len(built[c][t]) <= 1
    /\ \A th \in Threads :
          got[th].st = "done" =>
              /\ got[th].fn[1] \in {"indirect", "real"}
              /\ \A i \in 1..Len(built[got[th].c][got[th].t]) :
                     built[got[th].c][got[th].t][i] = got[th].fn[2]

\* C5: two goroutines asked for the same codec at the same time; one built it
\* and the other got the builder's indirect func
RacedForCodec ==
    \E a, b \in Threads :
        /\ a # b
        /\ got[a].st = "done" /\ got[b].st = "done"
        /\ got[a].c = got[b].c /\ got[a].t = got[b].t
        /\ got[a].fn = <<"real", a>>
        /\ got[b].fn = <<"indirect", a>>

-----------------------------------------------------------------------------
(* Properties of the stream facade.                                        *)

\* C9: once the context is done, EncodeAll writes nothing more, and DecodeAll
\* reads no further record and sends no further value
NoWorkAfterCancel ==
    [][ctxDone => /\ (encAll.pc = "select" => writer' = writer)
                  /\ (decAll.pc # "returned" => reader' = reader /\ sink' = sink)]_vars

RECURSIVE Framed(_)
\* the Write calls the Encode calls of log are to make: one per call whose
\* marshalling succeeded, with the encoding of its value on a never-used
\* encodeState and the line delimiter
Framed(log) ==
    IF log = <<>> THEN <<>>
    ELSE (IF Head(log).err = ""
          THEN <<marshal(0, Head(log).in, Head(log).rev).buf \o <<lineDelimiter>>>>
          ELSE <<>>) \o Framed(Tail(log))

\* C10: the writer got, in call order, one Write per Encode call whose
\* marshalling succeeded, with the encoding of the value and the line
\* delimiter, and nothing for a call that failed
WriterFraming == writer = Framed(encLog)

-----------------------------------------------------------------------------
(* Properties of the Decoder.                                              *)

\* every line of the stream s is shorter than the Scanner's token limit
WithinLimit(s) ==
    \A k \in 1..Len(Lines(s)) : Len(Lines(s)[k]) < maxTokenSize

\* the k-th Decode call was given the k-th line of the stream, and every call
\* after the last line returned io.EOF
InOrder(k) ==
    IF k <= Len(Lines(reader))
    THEN decLog[k].scanned /\ decLog[k].data = Lines(reader)[k]
    ELSE ~decLog[k].scanned /\ decLog[k].err = "EOF"

\* C11 (as the code has it): on a stream whose lines are all shorter than the
\* Scanner's token limit, successive Decode calls are given the lines of the
\* stream in order, without the delimiter, and every call after the last line
\* returns io.EOF
ReaderFramingWithinLimit ==
    WithinLimit(reader) => \A k \in 1..Len(decLog) : InOrder(k)

\* C11 (as stated): on every stream, successive Decode calls are given the
\* lines of the stream in order, and every call after the last line returns
\* io.EOF
ReaderFraming == \A k \in 1..Len(decLog) : InOrder(k)

\* C11: Decode was called past the end of a stream that holds an empty line
\* and an unterminated last line
ReadToEnd ==
    /\ WithinLimit(reader)
    /\ Len(Lines(reader)) >= 2
    /\ Lines(reader)[1] = <<>>
    /\ reader[Len(reader)] # lineDelimiter
    /\ Len(decLog) > Len(Lines(reader))

\* the k-th Decode call was given the k-th line of the stream and returned
\* an error of Unmarshal
FailedOn(k) ==
    /\ k <= Len(Lines(reader))
    /\ decLog[k].scanned
    /\ decLog[k].data = Lines(reader)[k]
    /\ decLog[k].err # ""

RECURSIVE Joined(_)
\* the bytes the writer holds after the Write calls ws
Joined(ws) == IF ws = <<>> THEN <<>> ELSE Head(ws) \o Joined(Tail(ws))

\* the stream is made of delimiter-terminated lines, every line was decoded
\* without error and every decoded value was handed to Encode
Reencoded ==
    /\ ReadAll
    /\ reader # <<>>
    /\ reader[Len(reader)] = lineDelimiter
    /\ Len(decLog) = Len(Lines(reader)) + 1
    /\ \A k \in 1..Len(Lines(reader)) : decLog[k].scanned /\ decLog[k].err = ""
    /\ Len(encLog) = Len(Lines(reader))

\* C13: decoding the delimiter-terminated lines of a stream without error
\* and encoding the decoded values in order writes the stream again, byte for
\* byte
StreamReencoding == Reencoded => Joined(writer) = reader

-----------------------------------------------------------------------------
(* Properties of the shape analysis.                                       *)

RECURSIVE Slots(_)
\* the sum over the visible fields fs of (complexity(field shape) + 1)
Slots(fs) ==
    IF fs = <<>> THEN 0
    ELSE (IF Kind(Head(fs).typ) = "struct" THEN Head(fs).complexity ELSE 0)
         + 1 + Slots(Tail(fs))

\* C14: complexity(T) is 0 for every shape that is no Record, and for a
\* Record the sum over its visible fields of (complexity(field shape) + 1)
\* minus 1, but 0 for a Record without visible fields: never negative
ComplexityValue ==
    call.op = "complexity" =>
        /\ call.res >= 0
        /\ Kind(call.typ) # "struct" => call.res = 0
        /\ Kind(call.typ) = "struct" =>
              call.res = IF cachedTypeFields(call.typ) = <<>> THEN 0
                         ELSE Slots(cachedTypeFields(call.typ)) - 1

\* the struct type t has an exported field whose shape is a channel
HasChanField(t) ==
    /\ t # Untyped
    /\ Kind(t) = "struct"
    /\ \E i \in 1..Len(TT(t).fields) :
          TT(t).fields[i].exported /\ Kind(TT(t).fields[i].typ) = "chan"

RECURSIVE Supported(_, _)
\* the fields fs of the record value v without those of a channel shape
Supported(fs, v) ==
    IF fs = <<>> THEN <<>>
    ELSE (IF Kind(Head(fs).typ) = "chan" THEN <<>>
          ELSE <<<<Head(fs).typ, Head(v)>>>>) \o Supported(Tail(fs), Tail(v))

\* C15: Marshal of a Record with an exported field of a channel shape
\* succeeds and treats the field as if it did not exist: for WithChan, whose
\* other field is I int, the bytes are the encoding of I alone
UnsupportedFieldSkipped ==
    (call.op = "Marshal" /\ HasChanField(call.typ)) =>
        /\ call.err = ""
        /\ Len(Supported(TT(call.typ).fields, Payload(call.val))) = 1 =>
              call.data = marshal(0, Supported(TT(call.typ).fields,
                                               Payload(call.val))[1],
                                  FALSE).buf

-----------------------------------------------------------------------------
(* Properties of the decoders.                                             *)

RECURSIVE Pieces(_, _)
\* the reference split of the bytes R at the byte D: the regions between
\* consecutive occurrences of D
Pieces(R, D) ==
    IF \A i \in 1..Len(R) : R[i] # D THEN <<R>>
    ELSE LET i == CHOOSE i \in 1..Len(R) :
                      R[i] = D /\ \A j \in 1..(i - 1) : R[j] # D
         IN  <<SubSeq(R, 1, i - 1)>> \o Pieces(SubSeq(R, i + 1, Len(R)), D)

\* a null slot: empty or equal to the null sentinel
NullSlot(s) == s = <<>> \/ s = Nil

\* the pair i of the top-level map data is the only one with its key, and its
\* value slot is null
NullValuePair(data, i) ==
    /\ Len(Pieces(Pieces(data, 2)[i], 3)) = 2
    /\ NullSlot(Pieces(Pieces(data, 2)[i], 3)[2])
    /\ \A j \in 1..Len(Pieces(data, 2)) :
          j # i => Pieces(Pieces(data, 2)[j], 3)[1] # Pieces(Pieces(data, 2)[i], 3)[1]

\* C16: a null slot decoded into an Optional leaves it absent: at the top
\* level, whatever the target held, and as the value of a map pair, whatever
\* the earlier pairs held
OptionalNullAbsent ==
    (call.op = "Unmarshal" /\ din.target.form = "ptr") =>
        /\ (Kind(call.typ) = "ptr" /\ NullSlot(din.data)) =>
              (call.err = "" /\ IsNilV(call.res))
        /\ (Kind(call.typ) = "map" /\ Kind(TT(call.typ).elem) = "ptr"
               /\ ~NullSlot(din.data) /\ call.err = "") =>
              \A i \in 1..Len(Pieces(din.data, 2)) :
                  NullValuePair(din.data, i) =>
                      \A k \in 1..Len(Payload(call.res)) :
                          Payload(call.res)[k][1]
                                = IntV(ParseInt(Pieces(Pieces(din.data, 2)[i], 3)[1]).n)
                              => IsNilV(Payload(call.res)[k][2])

\* the input of the call does not have the structure of the target's type:
\* the slots of a record, the elements of an array, the bytes of a byte
\* array, the 2 slots of every pair of a map
Mismatch(t, data) ==
    CASE Kind(t) = "struct" ->
            ~TT(t).unmar /\ data # <<>>
                /\ Len(Pieces(data, 1)) # complexityMap[t] + 1
      [] Kind(t) = "array" /\ Kind(TT(t).elem) = "uint8" ->
            Len(data) # TT(t).len
      [] Kind(t) = "array" /\ Kind(TT(t).elem) # "uint8" ->
            ~NullSlot(data) /\ Len(Pieces(data, 2)) # TT(t).len
      [] Kind(t) = "map" ->
            ~NullSlot(data)
                /\ \E i \in 1..Len(Pieces(data, 2)) :
                      \/ Pieces(data, 2)[i] = <<>>
                      \/ Len(Pieces(Pieces(data, 2)[i], 3)) # 2
      [] OTHER -> FALSE

\* C17: Unmarshal returns an UnmarshalTypeError when the input has a wrong
\* slot count for a record, a wrong element count for an array, a wrong
\* length for a byte array, or a map pair that is not 2 slots
StructuralMismatch ==
    (call.op = "Unmarshal" /\ din.target.form = "ptr"
        /\ Mismatch(call.typ, din.data)) =>
        call.err = "UnmarshalTypeError"

-----------------------------------------------------------------------------
(* Properties of the custom encoders.                                      *)

\* the types that provide MarshalHive in their value or pointer form
Marshalers == {"Custom", "CustomP", "*Custom", "*CustomP"}

\* C18: the bytes emitted for a value of a type that provides MarshalHive are
\* those MarshalHive returns for the encoder's current depth, by value or by
\* pointer, at the top level or nested in a record or an array; a nil pointer
\* emits the null sentinel without a call of MarshalHive; an error of
\* MarshalHive is a MarshalerError and Marshal returns no bytes
CustomEncoderPriority ==
    call.op = "Marshal" =>
        /\ (call.typ \in Marshalers /\ ~IsNilV(call.val)) =>
              /\ call.err = ""
              /\ call.data = MarshalHive(BaseType(call.typ), call.depth0).bytes
        /\ (call.typ \in {"*Custom", "*CustomP", "*CustomErr"}
               /\ IsNilV(call.val)) =>
              (call.err = "" /\ call.data = Nil)
        /\ call.typ = "WithCustom" =>
              /\ call.err = ""
              /\ call.data = AppendInt(Payload(Payload(call.val)[1])[1])
                                \o <<(call.depth0 + 1) % 256>>
                                \o MarshalHive("Custom", call.depth0).bytes
        /\ call.typ = "[2]Custom" =>
              /\ call.err = ""
              /\ call.data = MarshalHive("Custom", (call.depth0 + 1) % 256).bytes
                                \o <<(call.depth0 + 2) % 256>>
                                \o MarshalHive("Custom", (call.depth0 + 1) % 256).bytes
        /\ (call.typ \in {"CustomErr", "*CustomErr"} /\ ~IsNilV(call.val)) =>
              (call.err = "MarshalerError" /\ call.data = <<>>)

\* a value nested in an array was encoded by its MarshalHive below the top
\* level, on an encodeState that did not start at depth 0
CustomEncodedNested ==
    /\ call.op = "Marshal"
    /\ call.typ = "[2]Custom"
    /\ call.depth0 > 0
    /\ call.err = ""
    /\ call.data # <<>>

\* C19: decoding empty input into a record without a custom decoder succeeds
\* and leaves the zero record, whatever the target held
EmptyRecord ==
    (call.op = "Unmarshal" /\ din.target.form = "ptr"
        /\ Kind(call.typ) = "struct" /\ ~TT(call.typ).unmar
        /\ din.data = <<>>) =>
        (call.err = "" /\ call.res = Zero(call.typ))

-----------------------------------------------------------------------------
(* Properties of the slicer.                                               *)

RECURSIVE JoinedBy(_, _)
\* the regions ps with the byte D between consecutive ones
JoinedBy(ps, D) ==
    IF Len(ps) = 1 THEN ps[1] ELSE ps[1] \o <<D>> \o JoinedBy(Tail(ps), D)

\* the call of slice was made with an offset and a length in the range of the
\* reference split of the region, which is not empty
InRange ==
    /\ slicing.op = "slice"
    /\ slicing.data # <<>>
    /\ slicing.length >= 1
    /\ slicing.offset + slicing.length
          <= Len(Pieces(slicing.data, slicing.delimiter))

\* C20: numSlices is 0 for the empty region and else 1 plus the number of
\* delimiters in it; slice(offset, length) in range is the sub-regions
\* offset .. offset + length - 1 of the reference split joined by the
\* delimiter, so the whole range gives the region back and a single
\* sub-region holds no delimiter
SlicerContract ==
    /\ slicing.op = "numSlices" =>
          slicing.n = IF slicing.data = <<>> THEN 0
                      ELSE 1 + Cardinality({i \in 1..Len(slicing.data) :
                                   slicing.data[i] = slicing.delimiter})
    /\ InRange =>
          /\ ~slicing.panics
          /\ slicing.out
                = JoinedBy(SubSeq(Pieces(slicing.data, slicing.delimiter),
                                  slicing.offset + 1,
                                  slicing.offset + slicing.length),
                           slicing.delimiter)
          /\ slicing.length = 1 =>
                \A i \in 1..Len(slicing.out) :
                    slicing.out[i] # slicing.delimiter
          /\ (slicing.offset = 0
                 /\ slicing.length
                       = Len(Pieces(slicing.data, slicing.delimiter))) =>
                slicing.out = slicing.data

\* slice returned two or more sub-regions that do not start the region
SlicedSeveral ==
    /\ InRange
    /\ slicing.offset >= 1
    /\ slicing.length >= 2
    /\ ~slicing.panics
    /\ Len(slicing.out) >= 3

-----------------------------------------------------------------------------
(* Properties of EncodeAll and DecodeAll.                                  *)

\* a step of DecodeAll: a step that reads takes the first line left in the
\* stream and decodes it, holding the value for the sink or returning an
\* error; a step that sends appends the value held; nil is returned only at
\* the end of the stream; nothing is read or sent after the return
DecodeAllStep ==
    /\ reader' # reader =>
          /\ decAll.pc = "select"
          /\ Lines(reader') = Tail(Lines(reader))
          /\ Len(reader') < Len(reader)
          /\ reader' = SubSeq(reader, Len(reader) - Len(reader') + 1, Len(reader))
          /\ IF Unmarshal(Lines(reader)[1], Fresh(decAll.typ)).err = ""
             THEN /\ decAll'.pc = "send"
                  /\ decAll'.val
                        = Unmarshal(Lines(reader)[1], Fresh(decAll.typ)).v
             ELSE /\ decAll'.pc = "returned"
                  /\ decAll'.ret = "decode error"
    /\ sink' # sink =>
          /\ decAll.pc = "send"
          /\ sink' = Append(sink, decAll.val)
          /\ decAll'.pc = "select"
    /\ (decAll.pc # "returned" /\ decAll'.pc = "returned"
           /\ decAll'.ret = "nil") =>
          (reader = <<>> /\ decAll.pc = "select")
    /\ decAll.pc = "returned" =>
          (decAll' = decAll /\ reader' = reader /\ sink' = sink)

\* a step of EncodeAll: a step that receives takes the first value of the
\* channel and hands it to Encode, which writes once, or fails and makes
\* EncodeAll return an error; EncodeAll writes for a received value only;
\* nil is returned only on the closed and drained channel; nothing is
\* received after the return
EncodeAllStep ==
    /\ Len(srcCh'.buf) < Len(srcCh.buf) =>
          /\ encAll.pc = "select"
          /\ srcCh'.buf = Tail(srcCh.buf)
          /\ Len(encLog') = Len(encLog) + 1
          /\ encLog'[Len(encLog')].in = Head(srcCh.buf)
          /\ IF encLog'[Len(encLog')].err = ""
             THEN /\ Len(writer') = Len(writer) + 1
                  /\ SubSeq(writer', 1, Len(writer)) = writer
                  /\ encAll' = encAll
             ELSE /\ writer' = writer
                  /\ encAll'.pc = "returned"
                  /\ encAll'.ret = "encode error"
    /\ (encAll.pc = "select" /\ writer' # writer) =>
          Len(srcCh'.buf) < Len(srcCh.buf)
    /\ (encAll.pc # "returned" /\ encAll'.pc = "returned"
           /\ encAll'.ret = "nil") =>
          (srcCh.closed /\ srcCh.buf = <<>>)
    /\ encAll.pc = "returned" =>
          (encAll' = encAll /\ Len(srcCh'.buf) >= Len(srcCh.buf))

\* C21: DecodeAll sends every record of the stream once and in stream order
\* and, without a cancellation, returns, with nil only after the last record;
\* EncodeAll writes every value received in receive order and, once the
\* source is closed and drained, returns, with nil unless the context was
\* cancelled; the first failing record makes either return an error and
\* process no later record
HarnessCompleteness ==
    /\ [][DecodeAllStep /\ EncodeAllStep]_vars
    /\ <>(ctxDone \/ decAll.pc = "returned")
    /\ [](decAll.pc = "returned" =>
             (decAll.ret = "nil" <=> (reader = <<>> /\ decAll.val = NilV
                                         /\ decAll.ret # "ctx.Err")))
    /\ ((srcCh.closed /\ srcCh.buf = <<>> /\ encAll.pc = "select")
           ~> (encAll.pc = "returned" /\ (encAll.ret = "nil" \/ ctxDone)))

\* without a cancellation DecodeAll has sent two records and returned nil,
\* and EncodeAll has written two values and returned nil
AllProcessed ==
    /\ ~ctxDone
    /\ decAll.pc = "returned" /\ decAll.ret = "nil" /\ Len(sink) >= 2
    /\ encAll.pc = "returned" /\ encAll.ret = "nil" /\ Len(writer) >= 2

-----------------------------------------------------------------------------
(* Properties of the depth.                                                *)

\* the encodeState of the last Marshal, now in the pool, has the depth the
\* call started with
EncoderRestored == pool = <<call.depth0>>

\* the decodeState of the last Unmarshal, which started at depth 0, ended with
\* depth 0
DecoderRestored ==
    decode(TargetType(call.typ), call.data, Zero(TargetType(call.typ)), 0,
           TRUE).depth = 0

\* C22: an encoder or decoder that returns normally leaves the depth as it
\* found it, so the depth is 0 after every successful Marshal or Unmarshal
DepthRestored ==
    /\ (call.op = "Marshal" /\ call.err = "") =>
          (EncoderRestored /\ pool = <<0>>)
    /\ (call.op = "Unmarshal" /\ call.err = "") => DecoderRestored

\* the part of C22 that holds: the depth after a successful call is the depth
\* the call started with
DepthAsOnEntry ==
    /\ (call.op = "Marshal" /\ call.err = "") => EncoderRestored
    /\ (call.op = "Unmarshal" /\ call.err = "") => DecoderRestored

-----------------------------------------------------------------------------
(* Properties of the placeholder and of the complexity cache.              *)

\* th was handed the placeholder that goroutine o stored for a type
HoldsPlaceholder(th, o) ==
    /\ got[th].st = "done"
    /\ got[th].fn = <<"indirect", o>>

\* o is inside the call of typeEncoder / typeDecoder that stored the
\* placeholder th holds: it has still to assign f and to release the latch
StillBuilding(th, o) ==
    \E k \in 1..Len(stack[o]) :
        /\ stack[o][k].fn = "typeCodec"
        /\ stack[o][k].c = got[th].c
        /\ stack[o][k].t = got[th].t
        /\ stack[o][k].pc \in {"build", "store"}

\* the latch of the placeholder th holds is released, after f was assigned
Released(th) == Cache(got[th].c)[got[th].t][1] = "real"

\* C23: a caller that holds the placeholder of a type and invokes it comes to
\* run the real codec: the latch is released after the real codec was
\* assigned, or the goroutine that stored the placeholder is still on its way
\* to assign it and to release the latch, in a process that runs
PlaceholderLiveness ==
    \A th, o \in Threads :
        HoldsPlaceholder(th, o) =>
            \/ Released(th)
            \/ StillBuilding(th, o) /\ ~Crashed

\* the same where no goroutine has overflowed its stack
PlaceholderLivenessUncrashed ==
    \A th, o \in Threads :
        (HoldsPlaceholder(th, o) /\ ~Crashed) =>
            (Released(th) \/ StillBuilding(th, o))

\* th is evaluating complexity(t): the frame is on its stack
Evaluating(th, t) ==
    \E k \in 1..Len(stack[th]) :
        stack[th][k].fn = "complexity" /\ stack[th][k].t = t

\* C24: complexity(t) is evaluated at most once for a type, whatever the
\* interleaving of the calls of cachedComplexity(t): no two goroutines are
\* evaluating it for the same type, and none evaluates it for a type whose
\* complexity is stored
ComplexityOnce ==
    \A t \in CacheTypes :
        /\ \A a, b \in Threads :
              (a # b /\ Evaluating(a, t)) => ~Evaluating(b, t)
        /\ t \in cpxCache => \A th \in Threads : ~Evaluating(th, t)

-----------------------------------------------------------------------------
(* Properties of the delimiters.                                           *)

\* the occurrences of the byte b in the bytes s
Occurrences(s, b) == Cardinality({i \in 1..Len(s) : s[i] = b})

\* C25: a record that is an element of a sequence, or a value of a map,
\* separates its fields with a byte that none of the enclosing composites
\* uses: in the encoding of n records of two integers the element separator
\* occurs n - 1 times, and in the encoding of a map of n such records the
\* pair separator occurs n - 1 times and the key/value separator n times
NestedDelimitersDistinct ==
    (call.op = "Marshal" /\ call.err = "" /\ ~IsNilV(call.val)) =>
        /\ (call.typ = "[]Pair" /\ Len(Payload(call.val)) >= 1) =>
              Occurrences(call.data, (call.depth0 + 2) % 256)
                  = Len(Payload(call.val)) - 1
        /\ (call.typ = "map[int]Pair" /\ Len(Payload(call.val)) >= 1) =>
              /\ Occurrences(call.data, (call.depth0 + 2) % 256)
                    = Len(Payload(call.val)) - 1
              /\ Occurrences(call.data, (call.depth0 + 3) % 256)
                    = Len(Payload(call.val))

-----------------------------------------------------------------------------
(* Properties of the bytes Marshal returns.                                *)

\* C26: the bytes the first Marshal returned read the same after every later
\* Marshal and Encode call, also after calls that had the same encodeState
\* from the pool
ResultNotAliased ==
    call.op = "Marshal" => Read(mem.ret, mem.buf) = call.data

\* a later call had the first call's encodeState from the pool and left other
\* bytes in its Buffer's array than the first call returned
StateReused ==
    /\ call.op = "Marshal"
    /\ call.data # <<>>
    /\ mem.reused
    /\ Len(mem.buf) >= Len(call.data)
    /\ SubSeq(mem.buf, 1, Len(call.data)) # call.data

====
